---- MODULE Spec2Model ----
(***************************************************************************)
(* Collaboration synchronization engine of the OpenClaw web UI.            *)
(*                                                                         *)
(* Two client synchronization channels exist in the sources:               *)
(*   - the hook useWebSocket        (src/ui/src/lib/websocket.ts)          *)
(*   - CanvasPage.connectWebSocket  (src/ui/src/pages/SkillsPage.tsx)      *)
(* Both are modelled over the same channel variables, indexed by channel   *)
(* name; Kind(ch) selects the code that runs.                              *)
(***************************************************************************)
EXTENDS Integers, Sequences, FiniteSets, TLC

\* ------------------------------------------------------------------ bounds
MaxSock == 2            \* sockets (and reconnect timers) alive per channel
MaxDisturb == 2         \* forced closes, reconnect() calls and URL changes in a fair behaviour
TickMs == 1500          \* granularity of the passage of time
ReconnectDelay == 3000  \* setTimeout(connect, 3000)
MaxQueue == 1           \* frames in flight on one direction of one connection
MaxElems == 1           \* elements a pointer-up may still add to
MaxPath == 2            \* points a pointer-move may still add to
MaxClock == 1           \* last value of Date.now() (the first is 0)
MaxMessages == 1        \* chat messages the store may still add to
MaxInbox == 2           \* frames in flight from the server to one connection
MaxAccept == 3          \* messages the broadcast router accepts
MaxOps == 4             \* join and leave calls on one session
MaxFails == 3           \* close events that are still counted
MaxUsers == 3           \* largest count a users_count frame carries
MaxList == 2            \* elements a list has before the strokes of one page stop
EraseRadius == 20       \* const eraseRadius = 20

Hook == "hook"
Chan == {"hook", "A", "B", "C", "D"}
Kind(ch) == IF ch = Hook THEN "hook" ELSE "canvas"
ChanSet == {"hook", "A"}   \* the channels of the channel-level specification
Clients == {"A", "B", "C", "D"} \* the CanvasPage instances
CanvasIds == {"c1", "c2"}   \* the canvas sessions

Slots == 1..MaxSock
TimerIds == 1..MaxSock
ReadyStates == {"NONE", "CONNECTING", "OPEN", "CLOSING", "CLOSED"}

VARIABLES
    readyState,          \* [Chan -> [Slots -> ReadyStates]]  WebSocket.readyState of each socket object
    wsRef,               \* [Chan -> 0..MaxSock]              wsRef.current (0 = null)
    timers,              \* [Chan -> [TimerIds -> [pending, left]]] timers created by setTimeout
    reconnectTimeoutRef, \* [Chan -> 0..MaxSock]              reconnectTimeoutRef.current (0 = null)
    mounted,             \* [Chan -> BOOLEAN]                 the owning component is mounted
    disconnected,        \* [Chan -> BOOLEAN]   history: disconnect() ran and no connect was requested since
    lateAttempt,         \* [Chan -> BOOLEAN]   history: a timer started a connection after disconnect()/teardown
    disturbances,        \* Nat                 history: forced closes and connection gestures, counted by the fair specification
    canvasState,         \* [Clients -> record]   useState canvasState: elements, users, selectedTool, colors, width
    isDrawing,           \* [Clients -> BOOLEAN]
    currentPath,         \* [Clients -> Seq(Point)]
    startPoint,          \* [Clients -> Seq(Point)] of length 0 (null) or 1
    connectedUsers,      \* [Clients -> value]    useState connectedUsers
    messages,            \* Seq(record)          useAppStore messages
    up,                  \* [Chan -> [Slots -> Seq(Frame)]]  frames in flight, client to server
    down,                \* [Chan -> [Slots -> Seq(Frame)]]  frames in flight, server to client
    clock,               \* Nat                   Date.now()
    lastEvent,           \* [Chan -> record]     history: the handler the latest step ran, what it was given and tried to send
    sessions,            \* [CanvasIds -> Seq(CanvasSession)] of length 0 (absent) or 1: the Session Registry
    tally,               \* [CanvasIds -> record] history: join and leave calls, those that changed membership, updates accepted
    accepted,            \* Nat                  history: messages the Broadcast Router accepted
    lastSeen,            \* [Chan -> Nat]        history: acceptance number of the latest broadcast the client handled
    scene                \* 0..4                 history: progress of the two-participant scenario

chanVars == <<readyState, wsRef, timers, reconnectTimeoutRef, mounted, disconnected, lateAttempt>>
pageVars == <<canvasState, isDrawing, currentPath, startPoint, connectedUsers, messages>>
netVars == <<up, down>>
srvVars == <<sessions, tally, accepted, lastSeen, scene>>
vars == <<readyState, wsRef, timers, reconnectTimeoutRef, mounted, disconnected, lateAttempt,
          disturbances, canvasState, isDrawing, currentPath, startPoint, connectedUsers,
          messages, up, down, clock, lastEvent, sessions, tally, accepted, lastSeen, scene>>

\* ------------------------------------------------------- channel as a value
NoTimer == [pending |-> FALSE, left |-> 0]

ChanRec(ch) ==
    [rs |-> readyState[ch], ws |-> wsRef[ch], tm |-> timers[ch], ref |-> reconnectTimeoutRef[ch]]

SetChan(ch, c) ==
    /\ readyState' = [readyState EXCEPT ![ch] = c.rs]
    /\ wsRef' = [wsRef EXCEPT ![ch] = c.ws]
    /\ timers' = [timers EXCEPT ![ch] = c.tm]
    /\ reconnectTimeoutRef' = [reconnectTimeoutRef EXCEPT ![ch] = c.ref]

Min(S) == CHOOSE x \in S : \A y \in S : x <= y

\* A socket object nobody references any more and that will deliver no event.
Gc(c) ==
    [c EXCEPT !.rs = [s \in Slots |->
        IF c.rs[s] = "CLOSED" /\ s # c.ws THEN "NONE" ELSE c.rs[s]]]

Live(c) == {s \in Slots : c.rs[s] \in {"CONNECTING", "OPEN", "CLOSING"}}
Pending(c) == {t \in TimerIds : c.tm[t].pending}
FreeSlots(c) == {s \in Slots : c.rs[s] \in {"NONE", "CLOSED"}}
FreeTimers(c) == {t \in TimerIds : ~c.tm[t].pending}

\* new WebSocket(wsUrl); ...; wsRef.current = ws
newWebSocket(c) ==
    LET s == Min(FreeSlots(c))
    IN  Gc([c EXCEPT !.rs[s] = "CONNECTING", !.ws = s])

\* useWebSocket.connect
connect(c) == newWebSocket(c)

\* CanvasPage.connectWebSocket
connectWebSocket(c) ==
    IF c.ws # 0 /\ c.rs[c.ws] = "OPEN" THEN c ELSE newWebSocket(c)

\* WebSocket.close(): starts the closing handshake of a socket that is not yet closing
wsClose(c) ==
    IF c.ws # 0 /\ c.rs[c.ws] \in {"CONNECTING", "OPEN"}
    THEN [c EXCEPT !.rs[c.ws] = "CLOSING"]
    ELSE c

\* clearTimeout(id): cancels the timer if it is still pending
clearTimeout(c, t) == [c EXCEPT !.tm[t] = NoTimer]

\* useWebSocket.disconnect
disconnect(c) ==
    wsClose(IF c.ref # 0 THEN clearTimeout(c, c.ref) ELSE c)

\* a variant that retries only once: no new timer once one was ever scheduled
oncloseHookOnce(c) ==
    IF c.ref # 0 THEN c
    ELSE LET t == Min(FreeTimers(c))
         IN  [c EXCEPT !.tm[t] = [pending |-> TRUE, left |-> ReconnectDelay], !.ref = t]

\* ws.onclose of useWebSocket: reconnectTimeoutRef.current = setTimeout(connect, 3000)
oncloseHook(c) ==
    LET t == Min(FreeTimers(c))
    IN  [c EXCEPT !.tm[t] = [pending |-> TRUE, left |-> ReconnectDelay], !.ref = t]

\* a variant that backs off: the delay is doubled
oncloseCanvasBackoff(c) ==
    LET t == Min(FreeTimers(c))
    IN  [c EXCEPT !.tm[t] = [pending |-> TRUE, left |-> 2 * ReconnectDelay]]

\* ws.onclose of CanvasPage: setTimeout(connectWebSocket, 3000)
oncloseCanvas(c) ==
    LET t == Min(FreeTimers(c))
    IN  [c EXCEPT !.tm[t] = [pending |-> TRUE, left |-> ReconnectDelay]]

onclose(k, c) == IF k = "hook" THEN oncloseHook(c) ELSE oncloseCanvas(c)

\* the callback a reconnect timer runs
timerCallback(k, c) == IF k = "hook" THEN connect(c) ELSE connectWebSocket(c)

\* the effect of useEffect: connect on mount
effectRun(k, c) == IF k = "hook" THEN connect(c) ELSE connectWebSocket(c)

\* the cleanup of useEffect
effectCleanup(k, c) == IF k = "hook" THEN disconnect(c) ELSE wsClose(c)

\* the close event of socket s: readyState becomes CLOSED and onclose runs
closeEvent(k, c, s) == Gc(onclose(k, [c EXCEPT !.rs[s] = "CLOSED"]))

\* ws.onerror: console.error only
onerror(k, c) == c

\* a variant in which no close event follows the error
errorEventOnly(k, c, s) == Gc([onerror(k, c) EXCEPT !.rs[s] = "CLOSED"])

\* a transport error on socket s: the browser fires error, then close
errorEvent(k, c, s) == closeEvent(k, onerror(k, c), s)

Connected(ch) == wsRef[ch] # 0 /\ readyState[ch][wsRef[ch]] = "OPEN"

\* --------------------------------------------------------------- values
\* A JavaScript value whose type the code tests is tagged by its only field.
JArr(items) == [arr |-> items]
JStr(text) == [str |-> text]
JNum(n) == [num |-> n]
JNull == [null |-> TRUE]
IsArray(v) == "arr" \in DOMAIN v

\* JavaScript truthiness, as `v || []` tests it
Truthy(v) ==
    IF "arr" \in DOMAIN v THEN TRUE
    ELSE IF "str" \in DOMAIN v THEN v.str # ""
    ELSE IF "num" \in DOMAIN v THEN v.num # 0
    ELSE FALSE

\* an optional field: <<>> is undefined, <<v>> is the value v
Opt(r, k) == IF k \in DOMAIN r THEN <<r[k]>> ELSE <<>>

Point(x, y) == [x |-> x, y |-> y]
Abs(n) == IF n < 0 THEN -n ELSE n
Min2(a, b) == IF a <= b THEN a ELSE b
\* Math.sqrt(n), kept symbolic
Sqrt(n) == [sqrt |-> n]

\* JSON.stringify(v): the text of v; integers, strings, arrays and objects
\* without undefined members are written in full
JSONstringify(v) == [text |-> v]
\* a text that is no JSON
Garbage == [junk |-> TRUE]
\* JSON.parse(data): <<v>> is the value v, <<>> is a SyntaxError
JSONparse(data) == IF "text" \in DOMAIN data THEN <<data.text>> ELSE <<>>

\* the envelope { type, payload }
Msg(type, payload) == [type |-> type, payload |-> payload]
UpdateMsg(items) == Msg("canvas_update", [elements |-> JArr(items)])
CursorMsg(pos) == Msg("cursor_move", [cursor |-> pos])

\* ----------------------------------------------------------- CanvasPage
InitCanvasState ==
    [elements |-> JArr(<<>>), users |-> <<>>, selectedTool |-> "select",
     strokeColor |-> "#000000", fillColor |-> "#ffffff", strokeWidth |-> 2]

InitPage ==
    [cs |-> InitCanvasState, isDrawing |-> FALSE, currentPath |-> <<>>,
     startPoint |-> <<>>, connectedUsers |-> <<0>>]

PageRec(c) ==
    [cs |-> canvasState[c], isDrawing |-> isDrawing[c], currentPath |-> currentPath[c],
     startPoint |-> startPoint[c], connectedUsers |-> connectedUsers[c]]

SetPage(c, pg) ==
    /\ canvasState' = [canvasState EXCEPT ![c] = pg.cs]
    /\ isDrawing' = [isDrawing EXCEPT ![c] = pg.isDrawing]
    /\ currentPath' = [currentPath EXCEPT ![c] = pg.currentPath]
    /\ startPoint' = [startPoint EXCEPT ![c] = pg.startPoint]
    /\ connectedUsers' = [connectedUsers EXCEPT ![c] = pg.connectedUsers]

\* what a handler does: the next page state and the frames it tries to send
Result(pg, out) == [pg |-> pg, out |-> out]

\* a variant that adds the received elements to the local ones
onmessageMerge(pg, f) ==
    IF "type" \in DOMAIN f /\ f.type = "canvas_update" /\ "payload" \in DOMAIN f
       /\ "elements" \in DOMAIN f.payload /\ IsArray(f.payload.elements)
       /\ IsArray(pg.cs.elements)
    THEN [pg EXCEPT !.cs.elements = JArr(pg.cs.elements.arr \o f.payload.elements.arr)]
    ELSE pg

\* a variant that keeps the local elements the snapshot does not name
onmessageUnion(pg, f) ==
    IF "type" \in DOMAIN f /\ f.type = "canvas_update" /\ "payload" \in DOMAIN f
       /\ "elements" \in DOMAIN f.payload /\ IsArray(f.payload.elements)
       /\ IsArray(pg.cs.elements)
    THEN LET named == {f.payload.elements.arr[i].id : i \in DOMAIN f.payload.elements.arr}
             NotNamed(el) == el.id \notin named
         IN  [pg EXCEPT !.cs.elements =
                JArr(f.payload.elements.arr \o SelectSeq(pg.cs.elements.arr, NotNamed))]
    ELSE pg

\* a variant that takes a snapshot only while the local list is empty
onmessageIfEmpty(pg, f) ==
    IF "type" \in DOMAIN f /\ f.type = "canvas_update" /\ "payload" \in DOMAIN f
       /\ "elements" \in DOMAIN f.payload /\ IsArray(f.payload.elements)
       /\ IsArray(pg.cs.elements) /\ pg.cs.elements.arr = <<>>
    THEN [pg EXCEPT !.cs.elements = JArr(f.payload.elements.arr)]
    ELSE pg

\* a variant that abandons the stroke under way when a snapshot arrives
onmessageCancel(pg, f) ==
    IF "type" \notin DOMAIN f THEN pg
    ELSE IF f.type = "canvas_update" THEN
        IF "payload" \notin DOMAIN f THEN pg
        ELSE [pg EXCEPT !.isDrawing = FALSE, !.currentPath = <<>>,
                        !.cs.elements =
                IF "elements" \in DOMAIN f.payload /\ Truthy(f.payload.elements)
                THEN f.payload.elements
                ELSE JArr(<<>>)]
    ELSE IF f.type = "cursor_move" THEN
        IF "payload" \notin DOMAIN f THEN pg
        ELSE LET userId == Opt(f.payload, "userId")
                 users == pg.cs.users
                 known == \E i \in 1..Len(users) : users[i].id = userId
                 mapped == [i \in 1..Len(users) |->
                              IF users[i].id = userId
                              THEN [users[i] EXCEPT !.cursor = Opt(f.payload, "cursor")]
                              ELSE users[i]]
             IN  [pg EXCEPT !.cs.users =
                    IF known THEN mapped
                    ELSE Append(mapped, [id |-> userId, name |-> Opt(f.payload, "name"),
                                         color |-> Opt(f.payload, "color"),
                                         cursor |-> Opt(f.payload, "cursor")])]
    ELSE IF f.type = "users_count" THEN
        IF "payload" \notin DOMAIN f THEN pg
        ELSE [pg EXCEPT !.connectedUsers = Opt(f.payload, "count")]
    ELSE pg

\* a variant that adds a roster entry for every cursor_move
onmessageAddUser(pg, f) ==
    IF "type" \notin DOMAIN f THEN pg
    ELSE IF f.type = "canvas_update" THEN
        IF "payload" \notin DOMAIN f THEN pg
        ELSE [pg EXCEPT !.cs.elements =
                IF "elements" \in DOMAIN f.payload /\ Truthy(f.payload.elements)
                THEN f.payload.elements
                ELSE JArr(<<>>)]
    ELSE IF f.type = "cursor_move" THEN
        IF "payload" \notin DOMAIN f THEN pg
        ELSE LET userId == Opt(f.payload, "userId")
                 users == pg.cs.users
                 known == \E i \in 1..Len(users) : users[i].id = userId
                 mapped == [i \in 1..Len(users) |->
                              IF users[i].id = userId
                              THEN [users[i] EXCEPT !.cursor = Opt(f.payload, "cursor")]
                              ELSE users[i]]
             IN  [pg EXCEPT !.cs.users =
                    IF FALSE THEN mapped
                    ELSE Append(mapped, [id |-> userId, name |-> Opt(f.payload, "name"),
                                         color |-> Opt(f.payload, "color"),
                                         cursor |-> Opt(f.payload, "cursor")])]
    ELSE IF f.type = "users_count" THEN
        IF "payload" \notin DOMAIN f THEN pg
        ELSE [pg EXCEPT !.connectedUsers = Opt(f.payload, "count")]
    ELSE pg

\* the body of ws.onmessage of CanvasPage after JSON.parse gave f; a TypeError
\* (message.payload undefined) is caught and leaves the state as it is
onmessageParsed(pg, f) ==
    IF "type" \notin DOMAIN f THEN pg
    ELSE IF f.type = "canvas_update" THEN
        IF "payload" \notin DOMAIN f THEN pg
        ELSE [pg EXCEPT !.cs.elements =
                IF "elements" \in DOMAIN f.payload /\ Truthy(f.payload.elements)
                THEN f.payload.elements
                ELSE JArr(<<>>)]
    ELSE IF f.type = "cursor_move" THEN
        IF "payload" \notin DOMAIN f THEN pg
        ELSE LET userId == Opt(f.payload, "userId")
                 users == pg.cs.users
                 known == \E i \in 1..Len(users) : users[i].id = userId
                 mapped == [i \in 1..Len(users) |->
                              IF users[i].id = userId
                              THEN [users[i] EXCEPT !.cursor = Opt(f.payload, "cursor")]
                              ELSE users[i]]
             IN  [pg EXCEPT !.cs.users =
                    IF known THEN mapped
                    ELSE Append(mapped, [id |-> userId, name |-> Opt(f.payload, "name"),
                                         color |-> Opt(f.payload, "color"),
                                         cursor |-> Opt(f.payload, "cursor")])]
    ELSE IF f.type = "users_count" THEN
        IF "payload" \notin DOMAIN f THEN pg
        ELSE [pg EXCEPT !.connectedUsers = Opt(f.payload, "count")]
    ELSE pg

\* a variant that clears the canvas when a frame cannot be handled
onmessageReset(pg, data) ==
    IF JSONparse(data) = <<>> \/ onmessageParsed(pg, JSONparse(data)[1]) = pg
    THEN [pg EXCEPT !.cs.elements = JArr(<<>>)]
    ELSE onmessageParsed(pg, JSONparse(data)[1])

\* ws.onmessage of CanvasPage: the page state after handling event.data
onmessage(pg, data) ==
    IF JSONparse(data) = <<>> THEN pg ELSE onmessageParsed(pg, JSONparse(data)[1])

\* ws.onmessage of useWebSocket: the store's messages after handling event.data
onmessageHook(msgs, data, now) ==
    IF JSONparse(data) = <<>> THEN msgs
    ELSE LET f == JSONparse(data)[1]
         IN  IF "type" \notin DOMAIN f THEN msgs
             ELSE IF f.type = "message" THEN
                 IF "payload" \notin DOMAIN f THEN msgs
                 ELSE Append(msgs,
                        [id |-> IF "id" \in DOMAIN f.payload /\ Truthy(f.payload.id)
                                THEN f.payload.id ELSE JStr(ToString(now)),
                         content |-> Opt(f.payload, "content"),
                         sender |-> "agent",
                         timestamp |-> IF "timestamp" \in DOMAIN f.payload
                                          /\ Truthy(f.payload.timestamp)
                                       THEN f.payload.timestamp ELSE JNum(now)])
             ELSE msgs

\* handleMouseDown
\* a variant that adds the point to the path buffer it finds
handleMouseDownKeep(pg, pos) ==
    Result([pg EXCEPT !.isDrawing = TRUE, !.startPoint = <<pos>>,
                      !.currentPath = IF pg.cs.selectedTool \in {"pen", "eraser"}
                                      THEN Append(pg.currentPath, pos) ELSE pg.currentPath],
           <<>>)

handleMouseDown(pg, pos) ==
    Result([pg EXCEPT !.isDrawing = TRUE, !.startPoint = <<pos>>,
                      !.currentPath = IF pg.cs.selectedTool \in {"pen", "eraser"}
                                      THEN <<pos>> ELSE pg.currentPath],
           <<>>)

\* a variant that returns, when no stroke is under way, before it sends the cursor
handleMouseMoveDrawing(pg, pos) ==
    IF ~pg.isDrawing THEN Result(pg, <<>>)
    ELSE Result(IF pg.cs.selectedTool \in {"pen", "eraser"}
                THEN [pg EXCEPT !.currentPath = Append(pg.currentPath, pos)]
                ELSE pg,
                <<CursorMsg(pos)>>)

\* handleMouseMove
handleMouseMove(pg, pos) ==
    Result(IF pg.isDrawing /\ pg.cs.selectedTool \in {"pen", "eraser"}
           THEN [pg EXCEPT !.currentPath = Append(pg.currentPath, pos)]
           ELSE pg,
           <<CursorMsg(pos)>>)

\* startPoint?.x || 0 and startPoint?.y || 0
StartX(pg) == IF pg.startPoint = <<>> THEN 0 ELSE pg.startPoint[1].x
StartY(pg) == IF pg.startPoint = <<>> THEN 0 ELSE pg.startPoint[1].y

\* a variant that makes a path of a single point
newElementFromTap(pg, pos, now) ==
    IF pg.cs.selectedTool = "pen" /\ Len(pg.currentPath) >= 1 THEN
        <<[id |-> ToString(now), type |-> "path", x |-> 0, y |-> 0,
           color |-> pg.cs.strokeColor, strokeWidth |-> pg.cs.strokeWidth,
           points |-> pg.currentPath]>>
    ELSE <<>>

\* a variant that anchors a rect at the start point and keeps the signed extents
newElementSigned(pg, pos, now) ==
    IF pg.cs.selectedTool = "rect" THEN
        <<[id |-> ToString(now), type |-> "rect", x |-> StartX(pg), y |-> StartY(pg),
           width |-> pos.x - StartX(pg), height |-> pos.y - StartY(pg),
           color |-> pg.cs.fillColor, strokeWidth |-> pg.cs.strokeWidth]>>
    ELSE <<>>

\* a variant that anchors a rect at the point where the pointer was released
newElementFromEnd(pg, pos, now) ==
    IF pg.cs.selectedTool = "rect" THEN
        <<[id |-> ToString(now), type |-> "rect", x |-> pos.x, y |-> pos.y,
           width |-> Abs(pos.x - StartX(pg)), height |-> Abs(pos.y - StartY(pg)),
           color |-> pg.cs.fillColor, strokeWidth |-> pg.cs.strokeWidth]>>
    ELSE <<>>

\* a variant that anchors a pen path at its first point
newElementAnchored(pg, pos, now) ==
    IF pg.cs.selectedTool = "pen" /\ Len(pg.currentPath) > 1 THEN
        <<[id |-> ToString(now), type |-> "path",
           x |-> pg.currentPath[1].x, y |-> pg.currentPath[1].y,
           color |-> pg.cs.strokeColor, strokeWidth |-> pg.cs.strokeWidth,
           points |-> pg.currentPath]>>
    ELSE <<>>

\* the element handleMouseUp builds: <<>> is null
newElement(pg, pos, now) ==
    LET tool == pg.cs.selectedTool
        id == ToString(now)
    IN  IF tool = "rect" THEN
            <<[id |-> id, type |-> "rect",
               x |-> Min2(StartX(pg), pos.x), y |-> Min2(StartY(pg), pos.y),
               width |-> Abs(pos.x - StartX(pg)), height |-> Abs(pos.y - StartY(pg)),
               color |-> pg.cs.fillColor, strokeWidth |-> pg.cs.strokeWidth]>>
        ELSE IF tool = "circle" THEN
            <<[id |-> id, type |-> "circle", x |-> StartX(pg), y |-> StartY(pg),
               radius |-> Sqrt((pos.x - StartX(pg)) * (pos.x - StartX(pg))
                               + (pos.y - StartY(pg)) * (pos.y - StartY(pg))),
               color |-> pg.cs.strokeColor, strokeWidth |-> pg.cs.strokeWidth]>>
        ELSE IF tool = "line" THEN
            <<[id |-> id, type |-> "line", x |-> StartX(pg), y |-> StartY(pg),
               width |-> pos.x - StartX(pg), height |-> pos.y - StartY(pg),
               color |-> pg.cs.strokeColor, strokeWidth |-> pg.cs.strokeWidth]>>
        ELSE IF tool = "pen" /\ Len(pg.currentPath) > 1 THEN
            <<[id |-> id, type |-> "path", x |-> 0, y |-> 0,
               color |-> pg.cs.strokeColor, strokeWidth |-> pg.cs.strokeWidth,
               points |-> pg.currentPath]>>
        ELSE <<>>

\* el.x || 0 and el.y || 0
ElX(el) == IF "x" \in DOMAIN el THEN el.x ELSE 0
ElY(el) == IF "y" \in DOMAIN el THEN el.y ELSE 0

\* a variant that keeps an element at distance eraseRadius
KeptOnEdge(el, pos) ==
    (ElX(el) - pos.x) * (ElX(el) - pos.x) + (ElY(el) - pos.y) * (ElY(el) - pos.y)
        >= EraseRadius * EraseRadius

\* the eraser keeps an element when Math.sqrt(dx^2 + dy^2) > eraseRadius
Kept(el, pos) ==
    (ElX(el) - pos.x) * (ElX(el) - pos.x) + (ElY(el) - pos.y) * (ElY(el) - pos.y)
        > EraseRadius * EraseRadius

RECURSIVE Filter(_, _)
Filter(items, pos) ==
    IF items = <<>> THEN <<>>
    ELSE IF Kept(Head(items), pos) THEN <<Head(items)>> \o Filter(Tail(items), pos)
    ELSE Filter(Tail(items), pos)

\* a variant that sends the new element alone
handleMouseUpDelta(pg, pos, now) ==
    IF ~pg.isDrawing THEN Result(pg, <<>>)
    ELSE LET el == newElement(pg, pos, now)
             done == [pg EXCEPT !.isDrawing = FALSE, !.currentPath = <<>>, !.startPoint = <<>>]
         IN  IF el # <<>>
             THEN Result([done EXCEPT !.cs.elements = JArr(pg.cs.elements.arr \o el)],
                         <<UpdateMsg(el)>>)
             ELSE Result(done, <<>>)

\* a variant that ends the stroke only when it finalized an element
handleMouseUpOpen(pg, pos, now) ==
    IF ~pg.isDrawing THEN Result(pg, <<>>)
    ELSE LET el == newElement(pg, pos, now)
             erased == IF pg.cs.selectedTool = "eraser"
                       THEN JArr(Filter(pg.cs.elements.arr, pos))
                       ELSE pg.cs.elements
             newElements == pg.cs.elements.arr \o el
             done == [pg EXCEPT !.isDrawing = FALSE, !.currentPath = <<>>, !.startPoint = <<>>]
         IN  IF el # <<>>
             THEN Result([done EXCEPT !.cs.elements = JArr(newElements)],
                         <<UpdateMsg(newElements)>>)
             ELSE Result([pg EXCEPT !.cs.elements = erased], <<>>)

\* handleMouseUp
handleMouseUp(pg, pos, now) ==
    IF ~pg.isDrawing THEN Result(pg, <<>>)
    ELSE LET el == newElement(pg, pos, now)
             erased == IF pg.cs.selectedTool = "eraser"
                       THEN JArr(Filter(pg.cs.elements.arr, pos))
                       ELSE pg.cs.elements
             newElements == pg.cs.elements.arr \o el
             done == [pg EXCEPT !.isDrawing = FALSE, !.currentPath = <<>>, !.startPoint = <<>>]
         IN  IF el # <<>>
             THEN Result([done EXCEPT !.cs.elements = JArr(newElements)],
                         <<UpdateMsg(newElements)>>)
             ELSE Result([done EXCEPT !.cs.elements = erased], <<>>)

\* a variant that puts the whole canvas state back to its initial value
deleteAllReset(pg) ==
    Result([pg EXCEPT !.cs = InitCanvasState], <<UpdateMsg(<<>>)>>)

\* a variant that leaves the canvas alone while a stroke is in progress
deleteAllIdle(pg) ==
    IF pg.isDrawing THEN Result(pg, <<>>)
    ELSE Result([pg EXCEPT !.cs.elements = JArr(<<>>)], <<UpdateMsg(<<>>)>>)

\* handleKeyDown with Delete or Backspace, and the clear button
deleteAll(pg) ==
    Result([pg EXCEPT !.cs.elements = JArr(<<>>)], <<UpdateMsg(<<>>)>>)

\* handleKeyDown
handleKeyDown(pg, key) ==
    IF key \in {"Delete", "Backspace"} THEN deleteAll(pg) ELSE Result(pg, <<>>)

\* a variant of onMouseLeave that leaves the stroke under way
handleMouseLeaveKeep(pg) == Result(pg, <<>>)

\* onMouseLeave
handleMouseLeave(pg) == Result([pg EXCEPT !.isDrawing = FALSE], <<>>)

\* a tool button
selectTool(pg, tool) == Result([pg EXCEPT !.cs.selectedTool = tool], <<>>)

\* a variant that hands the frame to any socket that is not closed
wsSendEarly(c, q, frame) ==
    IF c.ws # 0 /\ c.rs[c.ws] # "CLOSED"
    THEN [q EXCEPT ![c.ws] = Append(@, JSONstringify(frame))]
    ELSE q

\* if (wsRef.current?.readyState === WebSocket.OPEN) wsRef.current.send(...)
wsSend(c, q, frame) ==
    IF c.ws # 0 /\ c.rs[c.ws] = "OPEN"
    THEN [q EXCEPT ![c.ws] = Append(@, JSONstringify(frame))]
    ELSE q

\* useWebSocket.send
send(c, q, frame) == wsSend(c, q, frame)

\* ---------------------------------------------------------------- initial
NoCall == [fn |-> "", arg |-> <<>>]
Call(fn, arg) == [fn |-> fn, arg |-> arg]
NoEvent == [op |-> "none", open |-> FALSE, frame |-> <<>>, call |-> NoCall]
\* the latest step was ev at channel ch
Latest(ch, ev) == [x \in Chan |-> IF x = ch THEN ev ELSE NoEvent]

InitChan(active) ==
    /\ readyState = [ch \in Chan |-> [s \in Slots |->
            IF ch \in active /\ s = 1 THEN "CONNECTING" ELSE "NONE"]]
    /\ wsRef = [ch \in Chan |-> IF ch \in active THEN 1 ELSE 0]
    /\ timers = [ch \in Chan |-> [t \in TimerIds |-> NoTimer]]
    /\ reconnectTimeoutRef = [ch \in Chan |-> 0]
    /\ mounted = [ch \in Chan |-> ch \in active]
    /\ disconnected = [ch \in Chan |-> FALSE]
    /\ lateAttempt = [ch \in Chan |-> FALSE]
    /\ disturbances = 0
    /\ up = [ch \in Chan |-> [s \in Slots |-> <<>>]]
    /\ down = [ch \in Chan |-> [s \in Slots |-> <<>>]]
    /\ lastEvent = [ch \in Chan |-> NoEvent]

\* the store, the clock and the server before anything happened
InitRest ==
    /\ messages = <<>>
    /\ clock = 0
    /\ sessions = [sid \in CanvasIds |-> <<>>]
    /\ tally = [sid \in CanvasIds |-> [joins |-> 0, leaves |-> 0, added |-> 0, removed |-> 0,
                                       log |-> <<>>]]
    /\ accepted = 0
    /\ lastSeen = [ch \in Chan |-> 0]
    /\ scene = 0

InitPages ==
    /\ canvasState = [c \in Clients |-> InitCanvasState]
    /\ isDrawing = [c \in Clients |-> FALSE]
    /\ currentPath = [c \in Clients |-> <<>>]
    /\ startPoint = [c \in Clients |-> <<>>]
    /\ connectedUsers = [c \in Clients |-> <<0>>]
    /\ InitRest

Init == (\E ch \in ChanSet : InitChan({ch})) /\ InitPages

\* ---------------------------------------------------------- channel events
Ghost(ch, disc, late) ==
    /\ disconnected' = [disconnected EXCEPT ![ch] = disc]
    /\ lateAttempt' = [lateAttempt EXCEPT ![ch] = late]
    /\ lastEvent' = [x \in Chan |-> NoEvent]

\* the frames in flight on a connection are lost with it
DropFrames(ch, s) ==
    /\ up' = [up EXCEPT ![ch][s] = <<>>]
    /\ down' = [down EXCEPT ![ch][s] = <<>>]

\* ws.onopen: the connection is established
SockOpenEv(ch, s) ==
    /\ readyState[ch][s] = "CONNECTING"
    /\ readyState' = [readyState EXCEPT ![ch][s] = "OPEN"]
    /\ Ghost(ch, disconnected[ch], lateAttempt[ch])
    /\ UNCHANGED <<wsRef, timers, reconnectTimeoutRef, mounted, up, down>>

\* the close event of socket s, in readyState `from`
CloseEv(ch, s, from) ==
    /\ readyState[ch][s] = from
    /\ SetChan(ch, closeEvent(Kind(ch), ChanRec(ch), s))
    /\ Ghost(ch, disconnected[ch], lateAttempt[ch])
    /\ DropFrames(ch, s)
    /\ UNCHANGED mounted

\* TickMs milliseconds pass
TickEv ==
    /\ \E ch \in Chan, t \in TimerIds : timers[ch][t].pending /\ timers[ch][t].left > 0
    /\ timers' = [ch \in Chan |-> [t \in TimerIds |->
            IF timers[ch][t].pending
            THEN [pending |-> TRUE,
                  left |-> IF timers[ch][t].left > TickMs THEN timers[ch][t].left - TickMs ELSE 0]
            ELSE timers[ch][t]]]
    /\ lastEvent' = [ch \in Chan |-> NoEvent]
    /\ UNCHANGED <<readyState, wsRef, reconnectTimeoutRef, mounted, disconnected, lateAttempt,
                   up, down>>

\* a reconnect timer expires and runs its callback
TimerFireEv(ch, t) ==
    /\ timers[ch][t].pending /\ timers[ch][t].left = 0
    /\ LET c0 == [ChanRec(ch) EXCEPT !.tm[t] = NoTimer]
           c1 == timerCallback(Kind(ch), c0)
       IN  /\ SetChan(ch, c1)
           /\ Ghost(ch, disconnected[ch],
                    lateAttempt[ch] \/ ((disconnected[ch] \/ ~mounted[ch]) /\ c1.rs # c0.rs))
    /\ UNCHANGED <<mounted, up, down>>

\* room for one more socket: every pending timer and closing socket keeps a slot
Room(ch) == Cardinality(Live(ChanRec(ch))) + Cardinality(Pending(ChanRec(ch))) < MaxSock

\* the component calls the returned reconnect()
ReconnectEv(ch) ==
    /\ Kind(ch) = "hook" /\ mounted[ch] /\ Room(ch)
    /\ SetChan(ch, connect(ChanRec(ch)))
    /\ Ghost(ch, FALSE, lateAttempt[ch])
    /\ UNCHANGED <<mounted, up, down>>

\* the component calls the returned disconnect()
DisconnectEv(ch) ==
    /\ Kind(ch) = "hook" /\ mounted[ch]
    /\ SetChan(ch, disconnect(ChanRec(ch)))
    /\ Ghost(ch, TRUE, FALSE)
    /\ UNCHANGED <<mounted, up, down>>

\* the owning view is torn down: the effect cleanup runs
UnmountEv(ch) ==
    /\ mounted[ch]
    /\ SetChan(ch, effectCleanup(Kind(ch), ChanRec(ch)))
    /\ mounted' = [mounted EXCEPT ![ch] = FALSE]
    /\ Ghost(ch, disconnected[ch] \/ Kind(ch) = "hook", FALSE)
    /\ UNCHANGED <<up, down>>

\* gatewayUrl changes: the effect is cleaned up and runs again
UrlChangeEv(ch) ==
    /\ mounted[ch] /\ Room(ch)
    /\ SetChan(ch, effectRun(Kind(ch), effectCleanup(Kind(ch), ChanRec(ch))))
    /\ Ghost(ch, FALSE, lateAttempt[ch])
    /\ UNCHANGED <<mounted, up, down>>

\* ------------------------------------------- channel-level specification
Still == UNCHANGED <<pageVars, clock, srvVars>>
Quiet == UNCHANGED <<disturbances, pageVars, clock, srvVars>>

SockOpen(ch, s) == SockOpenEv(ch, s) /\ Quiet
\* the connection attempt fails: onerror (log only), then the close event
SockFail(ch, s) == CloseEv(ch, s, "CONNECTING") /\ Quiet
\* an open connection is closed by the peer or the network
SockDrop(ch, s) == CloseEv(ch, s, "OPEN") /\ Quiet
\* the closing handshake started by close() completes
SockClosed(ch, s) == CloseEv(ch, s, "CLOSING") /\ Quiet
Tick == TickEv /\ Quiet
TimerFire(ch, t) == TimerFireEv(ch, t) /\ Quiet
Reconnect(ch) == ReconnectEv(ch) /\ Quiet
Disconnect(ch) == DisconnectEv(ch) /\ Quiet
Unmount(ch) == UnmountEv(ch) /\ Quiet
UrlChange(ch) == UrlChangeEv(ch) /\ Quiet

Next ==
    \/ \E ch \in ChanSet, s \in Slots :
        \/ SockOpen(ch, s)
        \/ SockFail(ch, s)
        \/ SockDrop(ch, s)
        \/ SockClosed(ch, s)
    \/ Tick
    \/ \E ch \in ChanSet, t \in TimerIds : TimerFire(ch, t)
    \/ \E ch \in ChanSet :
        \/ Reconnect(ch)
        \/ Disconnect(ch)
        \/ Unmount(ch)
        \/ UrlChange(ch)

Spec == Init /\ [][Next]_vars

\* ------------------------------------------------- fair specification
\* The endpoint is reachable (no attempt fails), timers expire, handshakes
\* complete, and at most MaxDisturb disturbances happen: forced closes of an
\* open connection, reconnect() calls and URL changes.
Disturb == disturbances < MaxDisturb /\ disturbances' = disturbances + 1 /\ Still

FairSockDrop(ch, s) == CloseEv(ch, s, "OPEN") /\ Disturb
FairReconnect(ch) == ReconnectEv(ch) /\ Disturb
FairUrlChange(ch) == UrlChangeEv(ch) /\ Disturb

NextFair ==
    \/ \E ch \in ChanSet, s \in Slots :
        \/ SockOpen(ch, s)
        \/ FairSockDrop(ch, s)
        \/ SockClosed(ch, s)
    \/ Tick
    \/ \E ch \in ChanSet, t \in TimerIds : TimerFire(ch, t)
    \/ \E ch \in ChanSet :
        \/ FairReconnect(ch)
        \/ Disconnect(ch)
        \/ Unmount(ch)
        \/ FairUrlChange(ch)

FairSpec ==
    /\ Init
    /\ [][NextFair]_vars
    /\ WF_vars(Tick)
    /\ \A ch \in ChanSet, s \in Slots : WF_vars(SockOpen(ch, s)) /\ WF_vars(SockClosed(ch, s))
    /\ \A ch \in ChanSet, t \in TimerIds : WF_vars(TimerFire(ch, t))

\* ------------------------------------------------ closes that are counted
\* the close events so far, counted up to MaxFails
Counted ==
    /\ disturbances' = IF disturbances < MaxFails THEN disturbances + 1 ELSE disturbances
    /\ Still

RetryFail(ch, s) == CloseEv(ch, s, "CONNECTING") /\ Counted
RetryDrop(ch, s) == CloseEv(ch, s, "OPEN") /\ Counted

NextRetry ==
    \/ \E ch \in ChanSet, s \in Slots :
        \/ SockOpen(ch, s)
        \/ RetryFail(ch, s)
        \/ RetryDrop(ch, s)
        \/ SockClosed(ch, s)
    \/ Tick
    \/ \E ch \in ChanSet, t \in TimerIds : TimerFire(ch, t)
    \/ \E ch \in ChanSet :
        \/ Reconnect(ch)
        \/ Disconnect(ch)
        \/ Unmount(ch)

SpecRetry == Init /\ [][NextRetry]_vars

\* ------------------------------------------------------ transport errors
\* the connection of socket s fails, while connecting or when open
TransportError(ch, s) ==
    /\ readyState[ch][s] \in {"CONNECTING", "OPEN"}
    /\ SetChan(ch, errorEvent(Kind(ch), ChanRec(ch), s))
    /\ DropFrames(ch, s)
    /\ lastEvent' = Latest(ch, [op |-> "error", open |-> readyState[ch][s] = "OPEN",
                                frame |-> <<>>, call |-> Call("onerror", s)])
    /\ UNCHANGED <<mounted, disconnected, lateAttempt>>
    /\ Counted

NextError ==
    \/ \E ch \in ChanSet, s \in Slots :
        \/ SockOpen(ch, s)
        \/ TransportError(ch, s)
        \/ SockClosed(ch, s)
    \/ Tick
    \/ \E ch \in ChanSet, t \in TimerIds : TimerFire(ch, t)
    \/ \E ch \in ChanSet :
        \/ Reconnect(ch)
        \/ Disconnect(ch)
        \/ Unmount(ch)

SpecError == Init /\ [][NextError]_vars

\* ------------------------------------------- Session Registry (spec 4.1)
\* the canvas a client's page shows
CanvasOf(c) == IF c \in {"C", "D"} THEN "c2" ELSE "c1"

NoParticipants == [p \in {} |-> 0]
Members(ss, sid) == IF ss[sid] = <<>> THEN {} ELSE DOMAIN ss[sid][1].participants
Count(ss, sid) == Cardinality(Members(ss, sid))

\* a variant that numbers the colors by the size of the session
assignColorNext(ss, sid, p) == Cardinality(Members(ss, sid) \ {p}) + 1

\* a color no other live participant of the session has
assignColor(ss, sid, p) ==
    LET others == Members(ss, sid) \ {p}
        used == {ss[sid][1].participants[q].color : q \in others}
    IN  Min({k \in 1..(Cardinality(others) + 1) : k \notin used})

\* a variant of leave that discards the whole session
leaveAll(ss, sid, p) == [ss EXCEPT ![sid] = <<>>]

\* join(canvasId, participantInfo): creates the session if absent, adds the participant
join(ss, sid, p) ==
    LET old == IF ss[sid] = <<>> THEN [participants |-> NoParticipants, state |-> <<>>]
               ELSE ss[sid][1]
        new == [id |-> p, name |-> p[1], color |-> assignColor(ss, sid, p), cursor |-> <<>>]
    IN  [ss EXCEPT ![sid] =
            <<[old EXCEPT !.participants =
                  [q \in DOMAIN old.participants \cup {p} |->
                      IF q = p THEN new ELSE old.participants[q]]]>>]

\* a variant that keeps a session, and its state, when the last participant leaves
leaveKeep(ss, sid, p) ==
    IF p \notin Members(ss, sid) THEN ss
    ELSE [ss EXCEPT ![sid] =
            <<[ss[sid][1] EXCEPT !.participants =
                  [q \in Members(ss, sid) \ {p} |-> ss[sid][1].participants[q]]]>>]

\* leave(canvasId, participantId): removes the participant; an empty session is discarded
leave(ss, sid, p) ==
    IF p \notin Members(ss, sid) THEN ss
    ELSE IF Members(ss, sid) = {p} THEN [ss EXCEPT ![sid] = <<>>]
    ELSE [ss EXCEPT ![sid] =
            <<[ss[sid][1] EXCEPT !.participants =
                  [q \in Members(ss, sid) \ {p} |-> ss[sid][1].participants[q]]]>>]

\* what join returns: the assigned color and the current snapshot
joinReturn(ss, sid, p) ==
    [color |-> join(ss, sid, p)[sid][1].participants[p].color,
     snapshot |-> join(ss, sid, p)[sid][1].state]

\* a variant that adds the elements of an update to the state
applyUpdateAppend(ss, sid, items) ==
    IF ss[sid] = <<>> THEN ss
    ELSE [ss EXCEPT ![sid] = <<[ss[sid][1] EXCEPT !.state = @ \o items]>>]

\* a variant that merges per element: the state keeps what the update does not carry
applyUpdateUnion(ss, sid, items) ==
    IF ss[sid] = <<>> THEN ss
    ELSE LET Absent(el) == \A i \in DOMAIN items : items[i] # el
         IN  [ss EXCEPT ![sid] =
                <<[ss[sid][1] EXCEPT !.state = SelectSeq(@, Absent) \o items]>>]

\* applyUpdate(canvasId, elements): replaces the session's CanvasState wholesale
applyUpdate(ss, sid, items) ==
    IF ss[sid] = <<>> THEN ss
    ELSE [ss EXCEPT ![sid] = <<[ss[sid][1] EXCEPT !.state = items]>>]

\* the registry after the first n connections of order have joined their canvases
RECURSIVE JoinEach(_, _, _)
JoinEach(ss, order, n) ==
    IF n = 0 THEN ss
    ELSE join(JoinEach(ss, order, n - 1), CanvasOf(order[n]), <<order[n], 1>>)

\* -------------------------------------------- Broadcast Router (spec 4.2)
\* a variant that puts the newest message first
broadcastFront(dn, ss, sid, p, data, n) ==
    [c \in Chan |-> [s \in Slots |->
        IF <<c, s>> \in Members(ss, sid) \ {p}
        THEN <<[data |-> data, n |-> n]>> \o dn[c][s]
        ELSE dn[c][s]]]

\* the message, numbered n, is queued for every other participant of the session
broadcast(dn, ss, sid, p, data, n) ==
    [c \in Chan |-> [s \in Slots |->
        IF <<c, s>> \in Members(ss, sid) \ {p}
        THEN Append(dn[c][s], [data |-> data, n |-> n])
        ELSE dn[c][s]]]

\* a variant that tells the other participants about a rejected frame
RejectedLoud(ss) ==
    [ss |-> ss, cast |-> <<JSONstringify(Msg("error", [reason |-> "invalid"]))>>]

Rejected(ss) == [ss |-> ss, cast |-> <<>>]

\* what the router does with the frame data of participant p of session sid:
\* the registry afterwards and the message to broadcast, if any
routerHandle(ss, sid, p, data) ==
    IF JSONparse(data) = <<>> \/ p \notin Members(ss, sid) THEN Rejected(ss)
    ELSE LET f == JSONparse(data)[1]
         IN  IF "type" \notin DOMAIN f \/ "payload" \notin DOMAIN f THEN Rejected(ss)
             ELSE IF f.type = "canvas_update" THEN
                 IF "elements" \in DOMAIN f.payload /\ IsArray(f.payload.elements)
                 THEN [ss |-> applyUpdate(ss, sid, f.payload.elements.arr),
                       cast |-> <<JSONstringify(UpdateMsg(f.payload.elements.arr))>>]
                 ELSE Rejected(ss)
             ELSE IF f.type = "cursor_move" THEN
                 LET me == ss[sid][1].participants[p]
                     cursor == Opt(f.payload, "cursor")
                 IN  [ss |-> [ss EXCEPT ![sid] =
                                <<[ss[sid][1] EXCEPT !.participants[p].cursor = cursor]>>],
                      cast |-> <<JSONstringify(Msg("cursor_move",
                                    [participantId |-> me.id, name |-> me.name,
                                     color |-> me.color, cursor |-> cursor]))>>]
             ELSE Rejected(ss)

\* ----------------------------------------------------------- client events
Elements(c) == canvasState[c].elements.arr

\* the page is on screen and has rendered its state
Alive(c) == mounted[c] /\ IsArray(canvasState[c].elements)

\* the connection in use has room for one more frame in flight
CanSend(ch) == ~Connected(ch) \/ Len(up[ch][wsRef[ch]]) < MaxQueue

\* the client's connection in use is a participant of its session
Joined(c) == Connected(c) /\ <<c, wsRef[c]>> \in Members(sessions, CanvasOf(c))
\* nothing is in flight from A to the server or from the server to B
IdleLink == \A s \in Slots : up["A"][s] = <<>> /\ down["B"][s] = <<>>

\* the scenario of two participants A and B of one canvas, as the step of a user
\* event at c advances it: 1 = A has finalized a rect stroke from (10,10) to
\* (50,50) on an empty canvas, 3 = A has then issued delete-all; any other frame
\* of A starts over
WatchUser(c, call, r) ==
    IF c # "A" \/ r.out = <<>> THEN scene
    ELSE IF /\ call.fn = "handleMouseUp" /\ call.arg = Point(50, 50)
            /\ canvasState[c].selectedTool = "rect" /\ startPoint[c] = <<Point(10, 10)>>
            /\ Elements(c) = <<>>
            /\ Joined("A") /\ Joined("B") /\ IdleLink
         THEN 1
    ELSE IF /\ scene = 2
            /\ call.fn \in {"handleKeyDown", "clear"}
            /\ Joined("A") /\ Joined("B") /\ IdleLink
         THEN 3
    ELSE 0

\* 2 = B has handled A's rect update, 4 = B has handled A's delete-all
WatchRecv(c) ==
    IF c # "B" THEN scene
    ELSE IF scene = 1 THEN 2
    ELSE IF scene = 3 THEN 4
    ELSE scene

\* a user event of CanvasPage: the handler's result r is applied and its frame is sent
UserStep(c, call, r) ==
    /\ CanSend(c)
    /\ SetPage(c, r.pg)
    /\ up' = [up EXCEPT ![c] = IF r.out = <<>> THEN @ ELSE wsSend(ChanRec(c), @, r.out[1])]
    /\ lastEvent' = Latest(c, [op |-> "user", open |-> Connected(c), frame |-> r.out,
                               call |-> call])
    /\ scene' = WatchUser(c, call, r)
    /\ UNCHANGED <<chanVars, disturbances, messages, down, clock,
                   sessions, tally, accepted, lastSeen>>

SelectTool(c, tool) ==
    /\ Alive(c)
    /\ UserStep(c, Call("selectTool", tool), selectTool(PageRec(c), tool))
MouseDown(c, pos) ==
    /\ Alive(c)
    /\ UserStep(c, Call("handleMouseDown", pos), handleMouseDown(PageRec(c), pos))
MouseMove(c, pos) ==
    /\ Alive(c)
    /\ Len(currentPath[c]) < MaxPath
    /\ UserStep(c, Call("handleMouseMove", pos), handleMouseMove(PageRec(c), pos))
\* onMouseUp, while the list has fewer than max elements or cannot grow; the call
\* records whether the handler found a stroke under way
MouseUpWithin(c, pos, max) ==
    /\ Alive(c)
    /\ Len(Elements(c)) < max \/ canvasState[c].selectedTool = "eraser"
    /\ UserStep(c, [fn |-> "handleMouseUp", arg |-> pos, drawing |-> isDrawing[c]],
                   handleMouseUp(PageRec(c), pos, clock))
MouseUp(c, pos) == MouseUpWithin(c, pos, MaxElems)
MouseLeave(c) ==
    /\ Alive(c)
    /\ UserStep(c, Call("handleMouseLeave", <<>>), handleMouseLeave(PageRec(c)))
KeyDown(c, key) ==
    /\ Alive(c)
    /\ UserStep(c, Call("handleKeyDown", key), handleKeyDown(PageRec(c), key))
ClearButton(c) ==
    /\ Alive(c)
    /\ UserStep(c, Call("clear", <<>>), deleteAll(PageRec(c)))

\* the component that uses useWebSocket calls the returned send(message)
Send(ch, message) ==
    /\ Kind(ch) = "hook" /\ mounted[ch] /\ CanSend(ch)
    /\ up' = [up EXCEPT ![ch] = send(ChanRec(ch), @, message)]
    /\ lastEvent' = Latest(ch, [op |-> "user", open |-> Connected(ch),
                                frame |-> <<message>>, call |-> Call("send", <<>>)])
    /\ UNCHANGED <<chanVars, disturbances, pageVars, down, clock, srvVars>>

\* the page is left: the effect cleanup runs and React drops the page's state
CloseView(c) ==
    /\ Kind(c) = "canvas"
    /\ UnmountEv(c)
    /\ SetPage(c, InitPage)
    /\ UNCHANGED <<disturbances, messages, clock, srvVars>>

\* Date.now() advances
ClockTick ==
    /\ clock < MaxClock
    /\ clock' = clock + 1
    /\ lastEvent' = [ch \in Chan |-> NoEvent]
    /\ UNCHANGED <<chanVars, disturbances, pageVars, netVars, srvVars>>

\* the message event of CanvasPage; an unmounted page ignores the state update;
\* a page whose elements are no array throws in drawCanvas and is torn down
HandleCanvas(c, data) ==
    LET pg == IF mounted[c] THEN onmessage(PageRec(c), data) ELSE PageRec(c)
        broken == mounted[c] /\ ~IsArray(pg.cs.elements)
    IN  /\ SetPage(c, pg)
        /\ IF broken
           THEN /\ SetChan(c, effectCleanup(Kind(c), ChanRec(c)))
                /\ mounted' = [mounted EXCEPT ![c] = FALSE]
           ELSE UNCHANGED <<readyState, wsRef, timers, reconnectTimeoutRef, mounted>>
        /\ UNCHANGED messages

\* the message event of useWebSocket
HandleHook(ch, data) ==
    /\ Len(messages) < MaxMessages
    /\ messages' = onmessageHook(messages, data, clock)
    /\ UNCHANGED <<readyState, wsRef, timers, reconnectTimeoutRef, mounted,
                   canvasState, isDrawing, currentPath, startPoint, connectedUsers>>

HandleFrame(ch, data) ==
    /\ IF Kind(ch) = "hook" THEN HandleHook(ch, data) ELSE HandleCanvas(ch, data)
    /\ lastEvent' = Latest(ch, [op |-> "recv", open |-> Connected(ch), frame |-> <<data>>,
                                call |-> NoCall])
    /\ UNCHANGED <<disconnected, lateAttempt, disturbances, up, clock>>

\* the next broadcast in flight arrives
Recv(ch, s) ==
    /\ readyState[ch][s] = "OPEN" /\ down[ch][s] # <<>>
    /\ HandleFrame(ch, Head(down[ch][s]).data)
    /\ down' = [down EXCEPT ![ch][s] = Tail(@)]
    /\ lastSeen' = [lastSeen EXCEPT ![ch] = Head(down[ch][s]).n]
    /\ scene' = WatchRecv(ch)
    /\ UNCHANGED <<sessions, tally, accepted>>

\* a frame the gateway sends of its own arrives
RecvForeign(ch, s, data) ==
    /\ readyState[ch][s] = "OPEN"
    /\ HandleFrame(ch, data)
    /\ UNCHANGED <<down, srvVars>>

\* the gateway reads the next frame the client sent
Uplink(ch, s) ==
    /\ up[ch][s] # <<>>
    /\ up' = [up EXCEPT ![ch][s] = Tail(@)]
    /\ lastEvent' = [c \in Chan |-> NoEvent]
    /\ UNCHANGED <<chanVars, disturbances, pageVars, down, clock, srvVars>>

\* --------------------------------------------- one client and the gateway
ToolSet == {"rect", "pen"}
PointSet == {Point(10, 10), Point(50, 50)}
KeySet == {"Delete", "a"}
OutSet == {Msg("message", [content |-> "hi"])}

SomeRect == [id |-> "7", type |-> "rect", x |-> 10, y |-> 10, width |-> 40, height |-> 40,
             color |-> "#ffffff", strokeWidth |-> 2]

\* the values of message.type each onmessage has a branch for
KnownTypes(k) ==
    IF k = "hook" THEN {"message", "presence", "error"}
    ELSE {"canvas_update", "cursor_move", "users_count"}

\* data is no JSON, has no type, or has a type the handler has no branch for
Stray(k, data) ==
    \/ JSONparse(data) = <<>>
    \/ "type" \notin DOMAIN JSONparse(data)[1]
    \/ JSONparse(data)[1].type \notin KnownTypes(k)

\* a canvas_update whose payload has no sequence of elements
BadUpdates ==
    { JSONstringify(Msg("canvas_update", [note |-> "x"])),
      JSONstringify(Msg("canvas_update", [elements |-> JNull])),
      JSONstringify(Msg("canvas_update", [elements |-> JStr("abc")])) }

InFrames ==
    { Garbage,
      JSONstringify([hello |-> 1]),
      JSONstringify(Msg("presence", [users |-> JArr(<<>>)])),
      JSONstringify(Msg("message", [id |-> JStr("m1"), content |-> "hello"])),
      JSONstringify(UpdateMsg(<<SomeRect>>)),
      JSONstringify(Msg("users_count", [count |-> 2])) } \cup BadUpdates

NextClient ==
    \/ \E ch \in ChanSet, s \in Slots :
        \/ SockOpen(ch, s)
        \/ SockFail(ch, s)
        \/ SockDrop(ch, s)
        \/ SockClosed(ch, s)
        \/ Uplink(ch, s)
        \/ \E data \in InFrames : RecvForeign(ch, s, data)
    \/ Tick
    \/ ClockTick
    \/ \E ch \in ChanSet, t \in TimerIds : TimerFire(ch, t)
    \/ \E ch \in ChanSet \ Clients :
        \/ Reconnect(ch)
        \/ Disconnect(ch)
        \/ Unmount(ch)
        \/ UrlChange(ch)
        \/ \E message \in OutSet : Send(ch, message)
    \/ \E c \in ChanSet \cap Clients :
        \/ CloseView(c)
        \/ \E tool \in ToolSet : SelectTool(c, tool)
        \/ \E pos \in PointSet :
            \/ MouseDown(c, pos)
            \/ MouseMove(c, pos)
            \/ MouseUp(c, pos)
        \/ MouseLeave(c)
        \/ \E key \in KeySet : KeyDown(c, key)
        \/ ClearButton(c)

SpecClient == Init /\ [][NextClient]_vars

\* ------------------------------------- participants, gateway and registry
CollabSet == {"A", "B", "C"}

\* the server accepts the connection and joins it to the canvas of the page
Accept(c, s) ==
    /\ SockOpenEv(c, s)
    /\ sessions' = join(sessions, CanvasOf(c), <<c, s>>)
    /\ UNCHANGED <<disturbances, pageVars, clock, tally, accepted, lastSeen, scene>>

\* the connection is lost: the server removes the participant, the client sees the close
Depart(c, s) ==
    /\ CloseEv(c, s, "OPEN")
    /\ sessions' = leave(sessions, CanvasOf(c), <<c, s>>)
    /\ scene' = IF c \in {"A", "B"} THEN 0 ELSE scene
    /\ UNCHANGED <<disturbances, pageVars, clock, tally, accepted, lastSeen>>

\* the Broadcast Router handles the next frame of connection s of c
Route(c, s) ==
    /\ readyState[c][s] = "OPEN" /\ up[c][s] # <<>>
    /\ accepted < MaxAccept
    /\ LET p == <<c, s>>
           sid == CanvasOf(c)
           out == routerHandle(sessions, sid, p, Head(up[c][s]))
       IN  /\ \A q \in Members(sessions, sid) \ {p} : Len(down[q[1]][q[2]]) < MaxInbox
           /\ sessions' = out.ss
           /\ IF out.cast = <<>>
              THEN UNCHANGED <<down, accepted>>
              ELSE /\ down' = broadcast(down, sessions, sid, p, out.cast[1], accepted + 1)
                   /\ accepted' = accepted + 1
    /\ up' = [up EXCEPT ![c][s] = Tail(@)]
    /\ lastEvent' = Latest(c, [op |-> "route", open |-> TRUE, frame |-> <<Head(up[c][s])>>,
                               call |-> NoCall])
    /\ UNCHANGED <<chanVars, disturbances, pageVars, clock, tally, lastSeen, scene>>

InitCollab == InitChan(CollabSet) /\ InitPages

NextCollab ==
    \/ \E c \in CollabSet, s \in Slots :
        \/ Accept(c, s)
        \/ Depart(c, s)
        \/ Route(c, s)
        \/ Recv(c, s)
    \/ \E c \in {"A"} :
        \/ SelectTool(c, "rect")
        \/ MouseDown(c, Point(10, 10))
        \/ MouseUp(c, Point(50, 50))
        \/ KeyDown(c, "Delete")
    \/ \E c \in {"B", "C"} : ClearButton(c)

SpecCollab == InitCollab /\ [][NextCollab]_vars

\* ------------------------------------------- the router and any participant
\* every participant is connected and has joined the canvas of its page
InitJoined(active) ==
    /\ readyState = [ch \in Chan |-> [s \in Slots |->
            IF ch \in active /\ s = 1 THEN "OPEN" ELSE "NONE"]]
    /\ wsRef = [ch \in Chan |-> IF ch \in active THEN 1 ELSE 0]
    /\ timers = [ch \in Chan |-> [t \in TimerIds |-> NoTimer]]
    /\ reconnectTimeoutRef = [ch \in Chan |-> 0]
    /\ mounted = [ch \in Chan |-> ch \in active]
    /\ disconnected = [ch \in Chan |-> FALSE]
    /\ lateAttempt = [ch \in Chan |-> FALSE]
    /\ disturbances = 0
    /\ up = [ch \in Chan |-> [s \in Slots |-> <<>>]]
    /\ down = [ch \in Chan |-> [s \in Slots |-> <<>>]]
    /\ lastEvent = [ch \in Chan |-> NoEvent]
    /\ messages = <<>>
    /\ clock = 0
    /\ \E order \in [1..Cardinality(active) -> active] :
        /\ \A i, j \in DOMAIN order : i # j => order[i] # order[j]
        /\ sessions = JoinEach([sid \in CanvasIds |-> <<>>], order, Cardinality(active))
    /\ tally = [sid \in CanvasIds |-> [joins |-> 0, leaves |-> 0, added |-> 0, removed |-> 0,
                                       log |-> <<>>]]
    /\ accepted = 0
    /\ lastSeen = [ch \in Chan |-> 0]
    /\ scene = 0

\* what a participant's client may put on the wire
RouterFrames ==
    BadUpdates \cup
    { JSONstringify([type |-> "canvas_update"]),
      JSONstringify(UpdateMsg(<<SomeRect>>)) }

\* a participant's client, whatever program it runs, sends data
Inject(c, s, data) ==
    /\ readyState[c][s] = "OPEN" /\ Len(up[c][s]) < MaxQueue
    /\ up' = [up EXCEPT ![c][s] = Append(@, data)]
    /\ lastEvent' = [x \in Chan |-> NoEvent]
    /\ UNCHANGED <<chanVars, disturbances, pageVars, down, clock, srvVars>>

InitRouter ==
    /\ InitJoined({"A", "B"})
    /\ canvasState = [c \in Clients |-> InitCanvasState]
    /\ isDrawing = [c \in Clients |-> FALSE]
    /\ currentPath = [c \in Clients |-> <<>>]
    /\ startPoint = [c \in Clients |-> <<>>]
    /\ connectedUsers = [c \in Clients |-> <<0>>]

NextRouter ==
    \E c \in {"A", "B"}, s \in Slots :
        \/ \E data \in RouterFrames : Inject(c, s, data)
        \/ Route(c, s)
        \/ Recv(c, s)

SpecRouter == InitRouter /\ [][NextRouter]_vars

\* ---------------------------------------------- the registry called directly
PartIds == {<<"A", 1>>, <<"B", 1>>, <<"C", 1>>}
Calls(sid) == tally[sid].joins + tally[sid].leaves

RegistryStep ==
    UNCHANGED <<chanVars, disturbances, pageVars, netVars, clock, lastEvent,
                accepted, lastSeen, scene>>

Join(sid, p) ==
    /\ Calls(sid) < MaxOps
    /\ sessions' = join(sessions, sid, p)
    /\ tally' = [tally EXCEPT ![sid].joins = @ + 1,
                              ![sid].added = IF p \in Members(sessions, sid) THEN @ ELSE @ + 1]
    /\ RegistryStep

Leave(sid, p) ==
    /\ Calls(sid) < MaxOps
    /\ sessions' = leave(sessions, sid, p)
    /\ tally' = [tally EXCEPT ![sid].leaves = @ + 1,
                              ![sid].removed = IF p \in Members(sessions, sid) THEN @ + 1 ELSE @]
    /\ RegistryStep

ApplyUpdate(sid, items) ==
    /\ sessions[sid] # <<>> /\ sessions[sid][1].state # items
    /\ sessions' = applyUpdate(sessions, sid, items)
    /\ UNCHANGED tally
    /\ RegistryStep

InitRegistry == InitChan({}) /\ InitPages

NextRegistry ==
    \E sid \in CanvasIds :
        \/ \E p \in PartIds : Join(sid, p) \/ Leave(sid, p)
        \/ \E items \in {<<>>, <<SomeRect>>} : ApplyUpdate(sid, items)

SpecRegistry == InitRegistry /\ [][NextRegistry]_vars

\* ------------------------------------------------- one page and its tools
DrawTools == {"rect", "pen", "eraser"}
DrawPoints == {Point(10, 10), Point(50, 50), Point(30, 0)}
DrawKeys == {"Delete", "Backspace", "a"}

\* elements other participants drew, their ids taken from their clocks: at (10,10),
\* at distance 20 of it, and far off
NearEl == [id |-> "7", type |-> "rect", x |-> 10, y |-> 10, width |-> 5, height |-> 5,
           color |-> "#ffffff", strokeWidth |-> 2]
EdgeEl == [id |-> "8", type |-> "line", x |-> 30, y |-> 10, width |-> 5, height |-> 5,
           color |-> "#000000", strokeWidth |-> 2]
FarEl == [id |-> "1", type |-> "rect", x |-> 50, y |-> 50, width |-> 5, height |-> 5,
          color |-> "#ffffff", strokeWidth |-> 2]
Snapshot == <<NearEl, EdgeEl, FarEl>>

DrawFrames == {JSONstringify(UpdateMsg(Snapshot)), JSONstringify(UpdateMsg(<<FarEl>>))}

NextDraw ==
    \/ \E c \in {"A"}, s \in Slots :
        \/ SockOpen(c, s)
        \/ Uplink(c, s)
        \/ \E data \in DrawFrames : RecvForeign(c, s, data)
    \/ ClockTick
    \/ \E c \in {"A"} :
        \/ \E pos \in DrawPoints :
            \/ MouseDown(c, pos)
            \/ MouseMove(c, pos)
            \/ MouseUpWithin(c, pos, MaxList)
        \/ MouseLeave(c)
        \/ \E key \in DrawKeys : KeyDown(c, key)
        \/ ClearButton(c)

\* the page of A after the user has chosen a tool
InitDraw ==
    \E tool \in DrawTools \cup {"select"} :
        /\ InitChan({"A"})
        /\ canvasState = [c \in Clients |->
                IF c = "A" THEN selectTool(InitPage, tool).pg.cs ELSE InitCanvasState]
        /\ isDrawing = [c \in Clients |-> FALSE]
        /\ currentPath = [c \in Clients |-> <<>>]
        /\ startPoint = [c \in Clients |-> <<>>]
        /\ connectedUsers = [c \in Clients |-> <<0>>]
        /\ InitRest

SpecDraw == InitDraw /\ [][NextDraw]_vars

\* ------------------------------------------------- one session, observed
UpdateSet == {<<>>, <<SomeRect>>, <<NearEl, FarEl>>}

\* applyUpdate is called for an update of participant p
Update(sid, p, items) ==
    /\ p \in Members(sessions, sid) /\ accepted < MaxAccept
    /\ sessions' = applyUpdate(sessions, sid, items)
    /\ accepted' = accepted + 1
    /\ lastEvent' = Latest(p[1], [op |-> "applyUpdate", open |-> TRUE, frame |-> <<>>,
                                  call |-> Call(sid, items)])
    /\ UNCHANGED <<chanVars, disturbances, pageVars, netVars, clock,
                   tally, lastSeen, scene>>

NextSession ==
    \E sid \in {"c1"}, p \in PartIds :
        \/ Join(sid, p)
        \/ Leave(sid, p)
        \/ \E items \in UpdateSet : Update(sid, p, items)

SpecSession == InitRegistry /\ [][NextSession]_vars

\* ------------------------------------- two sessions, two ways to broadcast
\* A and B share canvas c1, whose router broadcasts an accepted update to the
\* other participants; C and D share canvas c2, whose router broadcasts it to
\* every participant, the originator included (spec 4.2 admits both)
EchoSet == {"A", "B", "C", "D"}
Firsts == {"A", "C"}
Seconds == {"B", "D"}
Role(c) == IF c \in Firsts THEN 1 ELSE 2
ToAll(sid) == sid = "c2"
NoOne == <<"none", 0>>

InitEcho ==
    /\ InitJoined(EchoSet)
    /\ \A c \in Firsts : sessions[CanvasOf(c)][1].participants[<<c, 1>>].color = 1
    /\ canvasState = [c \in Clients |-> selectTool(InitPage, "rect").pg.cs]
    /\ isDrawing = [c \in Clients |-> FALSE]
    /\ currentPath = [c \in Clients |-> <<>>]
    /\ startPoint = [c \in Clients |-> <<>>]
    /\ connectedUsers = [c \in Clients |-> <<0>>]

\* the user starts a stroke while no stroke is under way and the list has room
StartStroke(c, pos) ==
    /\ ~isDrawing[c] /\ Len(Elements(c)) < MaxElems
    /\ MouseDown(c, pos)

\* the router of the client's session handles the next frame of the client
RouteEcho(c, s) ==
    /\ readyState[c][s] = "OPEN" /\ up[c][s] # <<>>
    /\ LET p == <<c, s>>
           sid == CanvasOf(c)
           skip == IF ToAll(sid) THEN NoOne ELSE p
           out == routerHandle(sessions, sid, p, Head(up[c][s]))
       IN  /\ \A q \in Members(sessions, sid) \ {skip} : Len(down[q[1]][q[2]]) < MaxInbox
           /\ sessions' = out.ss
           /\ IF out.cast = <<>>
              THEN UNCHANGED <<down, accepted, tally>>
              ELSE /\ down' = broadcast(down, sessions, sid, skip, out.cast[1], accepted + 1)
                   /\ accepted' = accepted + 1
                   /\ tally' = [tally EXCEPT ![sid].log =
                                    Append(@, [from |-> Role(c),
                                               items |-> JSONparse(out.cast[1])[1].payload.elements.arr])]
    /\ up' = [up EXCEPT ![c][s] = Tail(@)]
    /\ lastEvent' = Latest(c, [op |-> "route", open |-> TRUE, frame |-> <<Head(up[c][s])>>,
                               call |-> NoCall])
    /\ UNCHANGED <<chanVars, disturbances, pageVars, clock, lastSeen, scene>>

NextEcho ==
    \/ \E c \in Firsts :
        \/ StartStroke(c, Point(10, 10))
        \/ MouseUp(c, Point(50, 50))
    \/ \E c \in Seconds :
        \/ StartStroke(c, Point(50, 50))
        \/ MouseUp(c, Point(30, 0))
    \/ \E c \in EchoSet, s \in Slots :
        \/ RouteEcho(c, s)
        \/ Recv(c, s)

SpecEcho == InitEcho /\ [][NextEcho]_vars

\* every frame of the session's participants has been routed and delivered
Settled(sid) ==
    \A c \in EchoSet : CanvasOf(c) = sid =>
        \A s \in Slots : up[c][s] = <<>> /\ down[c][s] = <<>>
Log(sid) == tally[sid].log
SessionElements(sid) == sessions[sid][1].state

\* ------------------------------------------- one page, its pen and its eraser
\* the user draws pen paths and erases, changing between the two tools
PenTools == {"pen", "eraser"}

InitPen ==
    /\ InitChan({"A"})
    /\ canvasState = [c \in Clients |->
            IF c = "A" THEN selectTool(InitPage, "pen").pg.cs ELSE InitCanvasState]
    /\ isDrawing = [c \in Clients |-> FALSE]
    /\ currentPath = [c \in Clients |-> <<>>]
    /\ startPoint = [c \in Clients |-> <<>>]
    /\ connectedUsers = [c \in Clients |-> <<0>>]
    /\ InitRest

NextPen ==
    \/ \E c \in {"A"}, s \in Slots :
        \/ SockOpen(c, s)
        \/ Uplink(c, s)
    \/ \E c \in {"A"} :
        \/ \E tool \in PenTools : SelectTool(c, tool)
        \/ \E pos \in DrawPoints :
            \/ MouseDown(c, pos)
            \/ MouseMove(c, pos)
            \/ MouseUpWithin(c, pos, MaxList)

SpecPen == InitPen /\ [][NextPen]_vars

\* ------------------------------------------------ one page and its roster
Participants == {"p1", "p2", "p3"}
NameOf(p) == IF p = "p1" THEN "Ann" ELSE IF p = "p2" THEN "Bob" ELSE "Cy"
ColorOf(p) == IF p = "p1" THEN "#f00" ELSE IF p = "p2" THEN "#0f0" ELSE "#00f"

\* the cursor_move the server broadcasts for participant p (spec 4.2, wire table)
CursorFrom(p, pos) ==
    Msg("cursor_move",
        [participantId |-> p, name |-> NameOf(p), color |-> ColorOf(p), cursor |-> pos])

PresenceFrames ==
    {JSONstringify(CursorFrom(p, pos)) : p \in Participants, pos \in PointSet}
    \cup {JSONstringify(Msg("users_count", [count |-> n])) : n \in 1..MaxUsers}

NextPresence ==
    \/ \E c \in {"A"}, s \in Slots :
        \/ SockOpen(c, s)
        \/ Uplink(c, s)
        \/ \E data \in PresenceFrames : RecvForeign(c, s, data)
    \/ \E c \in {"A"}, pos \in PointSet : MouseMove(c, pos)

InitPresence == InitChan({"A"}) /\ InitPages

SpecPresence == InitPresence /\ [][NextPresence]_vars

\* --------------------------------------------- one page and what it receives
\* the page of A, with the rect tool, draws while snapshots, cursors and user
\* counts arrive; cursor frames come in the shape of the wire table and in the
\* shape the page reads (payload.userId)
CursorAs(u, pos) ==
    Msg("cursor_move", [userId |-> u, name |-> NameOf(u), color |-> ColorOf(u), cursor |-> pos])

InboundFrames ==
    { JSONstringify(UpdateMsg(<<FarEl>>)),
      JSONstringify(Msg("canvas_update", [note |-> "x"])),
      JSONstringify(CursorFrom("p1", Point(10, 10))),
      JSONstringify(Msg("users_count", [count |-> 2])) }
    \cup {JSONstringify(CursorAs(u, pos)) : u \in {"p1", "p2"}, pos \in PointSet}

InitInbound ==
    /\ InitChan({"A"})
    /\ canvasState = [c \in Clients |->
            IF c = "A" THEN selectTool(InitPage, "rect").pg.cs ELSE InitCanvasState]
    /\ isDrawing = [c \in Clients |-> FALSE]
    /\ currentPath = [c \in Clients |-> <<>>]
    /\ startPoint = [c \in Clients |-> <<>>]
    /\ connectedUsers = [c \in Clients |-> <<0>>]
    /\ InitRest

NextInbound ==
    \/ \E c \in {"A"}, s \in Slots :
        \/ SockOpen(c, s)
        \/ Uplink(c, s)
        \/ \E data \in InboundFrames : RecvForeign(c, s, data)
    \/ \E c \in {"A"} :
        \/ MouseDown(c, Point(10, 10))
        \/ MouseUpWithin(c, Point(50, 50), MaxList)

SpecInbound == InitInbound /\ [][NextInbound]_vars

\* ------------------------------------------------------------- claims
Reconnecting(ch) ==
    /\ mounted[ch] /\ ~disconnected[ch]
    /\ wsRef[ch] # 0 /\ readyState[ch][wsRef[ch]] = "CLOSED"

\* C1: after disconnect() of useWebSocket no reconnect timer is pending and
\* no timer starts a connection attempt.
C1_NoReconnectAfterDisconnect ==
    disconnected[Hook] => (Pending(ChanRec(Hook)) = {} /\ ~lateAttempt[Hook])

\* C2: a close while not disconnected schedules an attempt after ReconnectDelay
\* ms, and the channel is eventually Connected again.
C2_ReconnectsAfterClose ==
    /\ [](\A ch \in ChanSet : Reconnecting(ch) => Pending(ChanRec(ch)) # {})
    /\ [][\A ch \in ChanSet, t \in TimerIds :
            (~timers[ch][t].pending /\ timers'[ch][t].pending)
                => timers'[ch][t].left = ReconnectDelay]_vars
    /\ \A ch \in ChanSet :
            Reconnecting(ch) ~> (Connected(ch) \/ ~mounted[ch] \/ disconnected[ch])

C2_Witness ==
    \E ch \in ChanSet :
        /\ Connected(ch) /\ mounted[ch] /\ ~disconnected[ch]
        /\ reconnectTimeoutRef[ch] # 0 \/ Kind(ch) = "canvas"
        /\ disturbances = 1 /\ Pending(ChanRec(ch)) = {} /\ wsRef[ch] = 1
        /\ Cardinality(Live(ChanRec(ch))) = 1

\* C3: after the owning view is torn down no reconnect timer is pending and
\* no timer starts a connection attempt.
C3_NoReconnectAfterTeardown ==
    \A ch \in ChanSet :
        ~mounted[ch] => (Pending(ChanRec(ch)) = {} /\ ~lateAttempt[ch])

\* C4: a frame is handed to a socket only by a send attempted while the channel
\* is Connected (wsRef.current is OPEN), and it is the frame of that attempt; an
\* attempt in any other state leaves the outbound frames and the channel (sockets,
\* reference, timers) as they were, so nothing is kept to be transmitted later.
C4_SendsOnlyWhileConnected ==
    [][\A ch \in ChanSet :
        /\ \A s \in Slots : Len(up'[ch][s]) > Len(up[ch][s]) =>
              /\ Connected(ch) /\ s = wsRef[ch]
              /\ lastEvent'[ch].op = "user" /\ lastEvent'[ch].frame # <<>>
              /\ up'[ch][s] = Append(up[ch][s], JSONstringify(lastEvent'[ch].frame[1]))
        /\ (lastEvent'[ch].op = "user" /\ ~Connected(ch)) =>
              /\ up'[ch] = up[ch]
              /\ ChanRec(ch)' = ChanRec(ch)
              /\ mounted'[ch] = mounted[ch]
      ]_vars

C4_Witness ==
    \E ch \in ChanSet :
        /\ lastEvent[ch].op = "user" /\ lastEvent[ch].frame # <<>> /\ ~lastEvent[ch].open
        /\ Reconnecting(ch)
        /\ \A s \in Slots : up[ch][s] = <<>>

\* C5: handling an inbound frame that is no JSON or whose type the handler does
\* not know changes nothing: elements, roster, user count and stored messages are
\* as before, the sockets and timers are as before (no reconnect is scheduled), and
\* a channel that was Connected still is.
C5_StrayInboundDiscarded ==
    [][\A ch \in ChanSet :
        (lastEvent'[ch].op = "recv" /\ Stray(Kind(ch), lastEvent'[ch].frame[1])) =>
            /\ pageVars' = pageVars
            /\ ChanRec(ch)' = ChanRec(ch)
            /\ mounted'[ch] = mounted[ch]
            /\ lastEvent'[ch].open => Connected(ch)'
      ]_vars

C5_Witness ==
    \E c \in ChanSet \cap Clients :
        /\ lastEvent[c].op = "recv" /\ Stray(Kind(c), lastEvent[c].frame[1])
        /\ Connected(c) /\ Pending(ChanRec(c)) = {}
        /\ mounted[c] /\ Elements(c) # <<>> /\ connectedUsers[c] = <<2>>

\* C6: handling an inbound canvas_update whose payload has no elements or whose
\* elements are no sequence leaves the local element list as it was, and the list
\* is still a sequence.
C6_MalformedUpdateDiscarded ==
    [][\A c \in ChanSet \cap Clients :
        (mounted[c] /\ lastEvent'[c].op = "recv" /\ lastEvent'[c].frame[1] \in BadUpdates) =>
            /\ canvasState'[c].elements = canvasState[c].elements
            /\ IsArray(canvasState'[c].elements)
      ]_vars


\* a canvas_update frame whose elements are a sequence, and those elements
IsUpdateFrame(data) ==
    /\ JSONparse(data) # <<>>
    /\ "type" \in DOMAIN JSONparse(data)[1] /\ JSONparse(data)[1].type = "canvas_update"
    /\ "payload" \in DOMAIN JSONparse(data)[1]
    /\ "elements" \in DOMAIN JSONparse(data)[1].payload
    /\ IsArray(JSONparse(data)[1].payload.elements)
FrameElements(data) == JSONparse(data)[1].payload.elements

\* C7: round trip and isolation. A canvas_update a connected participant sends
\* carries the element list it has just stored; when the router accepts it, the
\* update with exactly these elements is queued for every other participant that
\* is in the sender's session at that moment and for no other connection; a
\* client that handles such an update stores exactly its elements.
C7_RoundTripAndIsolation ==
    [][/\ \A c \in CollabSet :
            (lastEvent'[c].op = "user" /\ lastEvent'[c].frame # <<>> /\ lastEvent'[c].open) =>
                /\ up'[c][wsRef[c]] =
                      Append(up[c][wsRef[c]], JSONstringify(lastEvent'[c].frame[1]))
                /\ IsUpdateFrame(JSONstringify(lastEvent'[c].frame[1]))
                /\ lastEvent'[c].frame[1].payload.elements = canvasState'[c].elements
       /\ \A c \in CollabSet, s \in Slots :
            (/\ accepted' = accepted + 1
             /\ up[c][s] # <<>> /\ up'[c][s] = Tail(up[c][s])
             /\ IsUpdateFrame(Head(up[c][s]))) =>
                \A d \in CollabSet, t \in Slots :
                    down'[d][t] =
                        IF /\ <<d, t>> # <<c, s>>
                           /\ CanvasOf(d) = CanvasOf(c)
                           /\ <<d, t>> \in Members(sessions, CanvasOf(c))
                        THEN Append(down[d][t],
                                    [data |-> JSONstringify(
                                                UpdateMsg(FrameElements(Head(up[c][s])).arr)),
                                     n |-> accepted'])
                        ELSE down[d][t]
       /\ \A d \in CollabSet :
            (mounted[d] /\ lastEvent'[d].op = "recv" /\ IsUpdateFrame(lastEvent'[d].frame[1])) =>
                canvasState'[d].elements = FrameElements(lastEvent'[d].frame[1])
      ]_vars

C7_Witness ==
    /\ lastEvent["B"].op = "recv" /\ IsUpdateFrame(lastEvent["B"].frame[1])
    /\ FrameElements(lastEvent["B"].frame[1]).arr # <<>>
    /\ Elements("B") = Elements("A")
    /\ Joined("A") /\ Joined("B") /\ Joined("C")
    /\ lastSeen["C"] = 0 /\ \A s \in Slots : down["C"][s] = <<>>

Tags(q) == [i \in 1..Len(q) |-> q[i].n]
Increasing(q) == \A i, j \in 1..Len(q) : i < j => q[i] < q[j]

\* C8: FIFO per session. The broadcasts in flight to a connection are in the
\* order in which the router accepted them, and all of them were accepted after
\* the latest one the client has handled: a recipient of two messages handles
\* the one accepted first before the other.
C8_FifoPerSession ==
    \A c \in CollabSet, s \in Slots : Increasing(<<lastSeen[c]>> \o Tags(down[c][s]))

C8_Witness ==
    \E c \in CollabSet, s \in Slots : Len(down[c][s]) = 2 /\ lastSeen[c] > 0

\* C9 as stated: the participant count of a session is the number of join calls
\* minus the number of leave calls, and is never negative.
C9_CountIsJoinsMinusLeaves ==
    \A sid \in CanvasIds :
        /\ Count(sessions, sid) = tally[sid].joins - tally[sid].leaves
        /\ Count(sessions, sid) >= 0

\* C9 amended: the participant count of a session is the number of join calls
\* that added a participant minus the number of leave calls that removed one, and
\* is never negative; a leave for a participant that is not in the session and a
\* join for one that is already in it leave the count as it is.
C9_CountIsAddedMinusRemoved ==
    \A sid \in CanvasIds :
        /\ Count(sessions, sid) = tally[sid].added - tally[sid].removed
        /\ Count(sessions, sid) >= 0
        /\ tally[sid].added <= tally[sid].joins /\ tally[sid].removed <= tally[sid].leaves
        /\ (sessions[sid] = <<>>) = (tally[sid].added = tally[sid].removed)

C9_Witness ==
    \E sid \in CanvasIds :
        /\ tally[sid].removed = 1 /\ tally[sid].leaves = 2
        /\ tally[sid].added = 2 /\ Count(sessions, sid) = 1

\* C10: the scenario. A and B are participants of the same canvas; once B has
\* handled the update of A's rect stroke from (10,10) to (50,50), B's elements are
\* exactly one rect with x = 10, y = 10, width = 40, height = 40; once B has
\* handled the update of A's following delete-all, B's elements are empty.
C10_ScenarioRectThenDeleteAll ==
    [][/\ (scene = 1 /\ scene' = 2) =>
            /\ IsArray(canvasState'["B"].elements)
            /\ Len(canvasState'["B"].elements.arr) = 1
            /\ canvasState'["B"].elements.arr[1].type = "rect"
            /\ canvasState'["B"].elements.arr[1].x = 10
            /\ canvasState'["B"].elements.arr[1].y = 10
            /\ canvasState'["B"].elements.arr[1].width = 40
            /\ canvasState'["B"].elements.arr[1].height = 40
       /\ (scene = 3 /\ scene' = 4) => canvasState'["B"].elements = JArr(<<>>)
      ]_vars

C10_Witness ==
    /\ scene = 4 /\ lastEvent["B"].op = "recv"
    /\ Elements("A") = <<>> /\ Elements("B") = <<>>
    /\ accepted = 2

\* C11: handling an inbound canvas_update whose elements are a sequence E sets the
\* local element list to exactly E, whatever the list was before (nothing of the
\* old list is kept, nothing is merged), and leaves the rest of the page alone;
\* handling the same frame again changes nothing more.
C11_SnapshotReplaces ==
    [][\A c \in Clients :
        (/\ lastEvent'[c].op = "recv" /\ mounted[c]
         /\ IsUpdateFrame(lastEvent'[c].frame[1])) =>
            /\ canvasState'[c] =
                 [canvasState[c] EXCEPT !.elements = FrameElements(lastEvent'[c].frame[1])]
            /\ onmessage(PageRec(c)', lastEvent'[c].frame[1]) = PageRec(c)'
            /\ onmessage(PageRec(c), lastEvent'[c].frame[1]) = PageRec(c)'
      ]_vars

\* A has handled the snapshot of one element while its own update, carrying the
\* two elements it had drawn, was still in flight
C11_Witness ==
    /\ lastEvent["A"].op = "recv"
    /\ lastEvent["A"].frame = <<JSONstringify(UpdateMsg(<<FarEl>>))>>
    /\ Elements("A") = <<FarEl>>
    /\ \E s \in Slots :
        /\ up["A"][s] # <<>> /\ IsUpdateFrame(up["A"][s][1])
        /\ Len(FrameElements(up["A"][s][1]).arr) = 2
        /\ FarEl \notin {FrameElements(up["A"][s][1]).arr[i] : i \in 1..2}

\* C12: a pointer-up at (x, y) with the eraser, while a stroke is in progress,
\* removes an element with anchor (x0, y0) exactly when
\* (x0 - x)^2 + (y0 - y)^2 <= 20^2; the other elements are kept in their order and
\* no element is added.
C12_EraserRemovesWithinRadius ==
    [][\A c \in Clients :
        (/\ lastEvent'[c].op = "user" /\ lastEvent'[c].call.fn = "handleMouseUp"
         /\ isDrawing[c] /\ canvasState[c].selectedTool = "eraser") =>
            LET pos == lastEvent'[c].call.arg
                Outside(el) ==
                    ~((el.x - pos.x) * (el.x - pos.x) + (el.y - pos.y) * (el.y - pos.y)
                        <= 20 * 20)
            IN  Elements(c)' = SelectSeq(Elements(c), Outside)
      ]_vars

\* the eraser was released at (30,0) and of the three received elements the one
\* in the middle is gone
C12_Witness ==
    /\ lastEvent["A"].op = "user" /\ lastEvent["A"].call.fn = "handleMouseUp"
    /\ lastEvent["A"].call.arg = Point(30, 0) /\ lastEvent["A"].call.drawing
    /\ canvasState["A"].selectedTool = "eraser" /\ ~isDrawing["A"]
    /\ Elements("A") = <<NearEl, FarEl>>

\* C13: with the pen, the pointer-down point starts the captured path and every
\* pointer-move point while drawing is added to it; a pointer-up with a captured
\* path of one point adds no element and sends nothing; a pointer-up with a path of
\* two or more points adds exactly one path element whose points are the captured
\* path in order.
C13_PenPath ==
    [][\A c \in Clients :
        (lastEvent'[c].op = "user" /\ canvasState[c].selectedTool = "pen") =>
            LET fn == lastEvent'[c].call.fn
                pos == lastEvent'[c].call.arg
                n == Len(Elements(c))
            IN  /\ fn = "handleMouseDown" => currentPath'[c] = <<pos>>
                /\ (fn = "handleMouseMove" /\ isDrawing[c]) =>
                        currentPath'[c] = Append(currentPath[c], pos)
                /\ (fn = "handleMouseUp" /\ isDrawing[c] /\ Len(currentPath[c]) = 1) =>
                        /\ Elements(c)' = Elements(c)
                        /\ lastEvent'[c].frame = <<>> /\ up' = up
                /\ (fn = "handleMouseUp" /\ isDrawing[c] /\ Len(currentPath[c]) >= 2) =>
                        /\ Len(Elements(c)') = n + 1
                        /\ SubSeq(Elements(c)', 1, n) = Elements(c)
                        /\ Elements(c)'[n + 1].type = "path"
                        /\ Elements(c)'[n + 1].points = currentPath[c]
      ]_vars

\* the pen went down at (10,10), moved to (50,50) and was released: the path of
\* these two points is the last element
C13_Witness ==
    /\ lastEvent["A"].op = "user" /\ lastEvent["A"].call.fn = "handleMouseUp"
    /\ canvasState["A"].selectedTool = "pen"
    /\ Elements("A") # <<>>
    /\ Elements("A")[Len(Elements("A"))].type = "path"
    /\ Elements("A")[Len(Elements("A"))].points = <<Point(10, 10), Point(50, 50)>>

\* C14: with the rect tool, for every start point s and release point r the
\* element added has x = min(s.x, r.x), y = min(s.y, r.y), width = |r.x - s.x| and
\* height = |r.y - s.y|; width and height are never negative.
C14_RectNormalised ==
    [][\A c \in Clients :
        (/\ lastEvent'[c].op = "user" /\ lastEvent'[c].call.fn = "handleMouseUp"
         /\ isDrawing[c] /\ canvasState[c].selectedTool = "rect") =>
            LET s == startPoint[c][1]
                r == lastEvent'[c].call.arg
                el == Elements(c)'[Len(Elements(c)')]
            IN  /\ Len(Elements(c)') = Len(Elements(c)) + 1
                /\ el.type = "rect"
                /\ el.x = (IF s.x <= r.x THEN s.x ELSE r.x)
                /\ el.y = (IF s.y <= r.y THEN s.y ELSE r.y)
                /\ el.width = (IF s.x <= r.x THEN r.x - s.x ELSE s.x - r.x)
                /\ el.height = (IF s.y <= r.y THEN r.y - s.y ELSE s.y - r.y)
                /\ el.width >= 0 /\ el.height >= 0
      ]_vars

\* a rect dragged from (50,50) up and to the left to (30,0)
C14_Witness ==
    /\ lastEvent["A"].op = "user" /\ lastEvent["A"].call.fn = "handleMouseUp"
    /\ lastEvent["A"].call.arg = Point(30, 0) /\ lastEvent["A"].call.drawing
    /\ Elements("A") # <<>>
    /\ LET el == Elements("A")[Len(Elements("A"))]
       IN  /\ el.type = "rect" /\ el.id \in {"0"}
           /\ el.x = 30 /\ el.y = 0 /\ el.width = 20 /\ el.height = 50

\* C15: a pointer-up that finalizes an element (the rect tool, or the pen with a
\* path of two or more points) while the channel is Connected puts the new element
\* at the end of the local list, keeps all previous elements in their order, and
\* sends exactly one canvas_update whose elements are the entire resulting list.
C15_AppendAndSendAll ==
    [][\A c \in Clients :
        (/\ lastEvent'[c].op = "user" /\ lastEvent'[c].call.fn = "handleMouseUp"
         /\ isDrawing[c] /\ Connected(c)
         /\ \/ canvasState[c].selectedTool = "rect"
            \/ canvasState[c].selectedTool = "pen" /\ Len(currentPath[c]) >= 2) =>
            LET n == Len(Elements(c))
            IN  /\ Len(Elements(c)') = n + 1
                /\ SubSeq(Elements(c)', 1, n) = Elements(c)
                /\ lastEvent'[c].frame = <<UpdateMsg(Elements(c)')>>
                /\ up' = [up EXCEPT ![c][wsRef[c]] =
                            Append(@, JSONstringify(UpdateMsg(Elements(c)')))]
      ]_vars

\* a second element was added after a received one and the update in flight
\* carries both
C15_Witness ==
    /\ lastEvent["A"].op = "user" /\ lastEvent["A"].call.fn = "handleMouseUp"
    /\ lastEvent["A"].open
    /\ Len(Elements("A")) = 2 /\ Elements("A")[1] = FarEl /\ Elements("A")[2].id = "0"
    /\ up["A"][wsRef["A"]] = <<JSONstringify(UpdateMsg(Elements("A")))>>

\* C16: delete-all (the Delete or Backspace key, or the clear button) empties the
\* local element list and, while the channel is Connected, sends exactly one
\* canvas_update with no elements, whatever the selected tool and whether or not a
\* stroke is in progress.
C16_DeleteAll ==
    [][\A c \in Clients :
        (/\ lastEvent'[c].op = "user"
         /\ \/ lastEvent'[c].call.fn = "clear"
            \/ /\ lastEvent'[c].call.fn = "handleKeyDown"
               /\ lastEvent'[c].call.arg \in {"Delete", "Backspace"}) =>
            /\ Elements(c)' = <<>>
            /\ isDrawing'[c] = isDrawing[c]
            /\ canvasState'[c].selectedTool = canvasState[c].selectedTool
            /\ Connected(c) =>
                /\ lastEvent'[c].frame = <<UpdateMsg(<<>>)>>
                /\ up' = [up EXCEPT ![c][wsRef[c]] =
                            Append(@, JSONstringify(UpdateMsg(<<>>)))]
      ]_vars

\* Backspace was pressed in the middle of a pen stroke: the canvas is empty and
\* the empty update is in flight
C16_Witness ==
    /\ lastEvent["A"].op = "user" /\ lastEvent["A"].call = Call("handleKeyDown", "Backspace")
    /\ isDrawing["A"] /\ canvasState["A"].selectedTool = "pen" /\ Len(currentPath["A"]) = 2
    /\ Elements("A") = <<>>
    /\ up["A"][wsRef["A"]] = <<JSONstringify(UpdateMsg(<<>>))>>

\* C17: in every reachable state the ids of the elements of a client's local
\* list are pairwise distinct.
C17_IdsDistinct ==
    \A c \in Clients :
        IsArray(canvasState[c].elements) =>
            \A i, j \in DOMAIN Elements(c) :
                i # j => Elements(c)[i].id # Elements(c)[j].id

\* C18: handling an inbound cursor_move {participantId, name, color, cursor} for a
\* participant id that no roster entry has appends exactly one entry with that id,
\* name, color and cursor; for an id a roster entry has, only that entry's cursor
\* changes. So the roster has one entry per participant heard of.
C18_RosterByParticipant ==
    [][\A c \in Clients :
        (/\ lastEvent'[c].op = "recv" /\ mounted[c]
         /\ JSONparse(lastEvent'[c].frame[1]) # <<>>
         /\ "type" \in DOMAIN JSONparse(lastEvent'[c].frame[1])[1]
         /\ JSONparse(lastEvent'[c].frame[1])[1].type = "cursor_move") =>
            LET pl == JSONparse(lastEvent'[c].frame[1])[1].payload
                users == canvasState[c].users
                new == [id |-> <<pl.participantId>>, name |-> <<pl.name>>,
                        color |-> <<pl.color>>, cursor |-> <<pl.cursor>>]
            IN  IF \E i \in DOMAIN users : users[i].id = <<pl.participantId>>
                THEN canvasState'[c].users =
                        [i \in DOMAIN users |->
                            IF users[i].id = <<pl.participantId>>
                            THEN [users[i] EXCEPT !.cursor = <<pl.cursor>>]
                            ELSE users[i]]
                ELSE canvasState'[c].users = Append(users, new)
      ]_vars

\* C19: handling a users_count whose count is lower than the count shown removes
\* an entry from a roster that has one.
C19_LeaveRemovesEntry ==
    [][\A c \in Clients :
        (/\ lastEvent'[c].op = "recv" /\ mounted[c]
         /\ JSONparse(lastEvent'[c].frame[1]) # <<>>
         /\ "type" \in DOMAIN JSONparse(lastEvent'[c].frame[1])[1]
         /\ JSONparse(lastEvent'[c].frame[1])[1].type = "users_count"
         /\ connectedUsers[c] # <<>>
         /\ JSONparse(lastEvent'[c].frame[1])[1].payload.count < connectedUsers[c][1]
         /\ canvasState[c].users # <<>>) =>
            Len(canvasState'[c].users) = Len(canvasState[c].users) - 1
      ]_vars

\* C20: retries never stop and never slow down. While the channel has not been
\* disconnected explicitly, every close event of one of its sockets, however many
\* closes came before, schedules a new attempt 3000 ms later; and in no reachable
\* state has such a channel given up, with neither a socket alive nor an attempt
\* scheduled.
C20_RetriesForever ==
    /\ [][\A ch \in ChanSet, s \in Slots :
            (/\ ~disconnected[ch]
             /\ s \in Live(ChanRec(ch)) /\ s \notin Live(ChanRec(ch))') =>
                \E t \in TimerIds :
                    /\ ~timers[ch][t].pending
                    /\ timers'[ch][t] = [pending |-> TRUE, left |-> 3000]
       ]_vars
    /\ [](\A ch \in ChanSet :
            (wsRef[ch] # 0 /\ ~disconnected[ch]) =>
                (Live(ChanRec(ch)) # {} \/ Pending(ChanRec(ch)) # {}))

\* after MaxFails closes the last attempt has failed too and the next one is due
\* in 3000 ms
C20_Witness ==
    \E ch \in ChanSet :
        /\ disturbances = MaxFails /\ Reconnecting(ch)
        /\ Live(ChanRec(ch)) = {}
        /\ \E t \in TimerIds : timers[ch][t] = [pending |-> TRUE, left |-> ReconnectDelay]

\* C21: a transport error on a socket of a channel is never fatal: the step
\* schedules a new attempt ReconnectDelay ms later; if the socket was the one in
\* use and the channel is neither torn down nor disconnected, the channel is
\* Reconnecting afterwards; and no reachable state of a channel that was not
\* disconnected has neither a live socket nor a pending attempt.
C21_ErrorReconnects ==
    /\ [][\A ch \in ChanSet :
            lastEvent'[ch].op = "error" =>
                /\ \E t \in TimerIds :
                    /\ ~timers[ch][t].pending
                    /\ timers'[ch][t] = [pending |-> TRUE, left |-> ReconnectDelay]
                /\ (/\ lastEvent'[ch].call.arg = wsRef[ch]
                    /\ mounted[ch] /\ ~disconnected[ch]) => Reconnecting(ch)'
       ]_vars
    /\ [](\A ch \in ChanSet :
            (wsRef[ch] # 0 /\ ~disconnected[ch]) =>
                (Live(ChanRec(ch)) # {} \/ Pending(ChanRec(ch)) # {}))

\* an open connection in use has just failed with a transport error: the channel
\* is Reconnecting with the next attempt due in ReconnectDelay ms
C21_Witness ==
    \E ch \in ChanSet :
        /\ lastEvent[ch].op = "error" /\ lastEvent[ch].open
        /\ lastEvent[ch].call.arg = wsRef[ch]
        /\ Reconnecting(ch) /\ Live(ChanRec(ch)) = {}
        /\ \E t \in TimerIds : timers[ch][t] = [pending |-> TRUE, left |-> ReconnectDelay]

\* C22: when the router handles a canvas_update whose payload has no well-formed
\* sequence of elements, the registry is as before and nothing is queued for any
\* participant.
C22_BadUpdateRejected ==
    [][\A c \in CollabSet, s \in Slots :
        (/\ lastEvent'[c].op = "route"
         /\ up[c][s] # <<>> /\ up'[c][s] = Tail(up[c][s])
         /\ JSONparse(Head(up[c][s])) # <<>>
         /\ "type" \in DOMAIN JSONparse(Head(up[c][s]))[1]
         /\ JSONparse(Head(up[c][s]))[1].type = "canvas_update"
         /\ ~IsUpdateFrame(Head(up[c][s]))) =>
            /\ sessions' = sessions
            /\ down' = down /\ accepted' = accepted
      ]_vars

\* the session of A and B holds one element, a later update without elements has
\* been handled, and nothing is in flight to anybody
C22_Witness ==
    /\ lastEvent["A"].op = "route"
    /\ lastEvent["A"].frame = <<JSONstringify(Msg("canvas_update", [note |-> "x"]))>>
    /\ sessions["c1"] # <<>> /\ sessions["c1"][1].state = <<SomeRect>>
    /\ accepted = 1 /\ lastSeen["B"] = 1
    /\ \A c \in CollabSet, s \in Slots : up[c][s] = <<>> /\ down[c][s] = <<>>
    /\ Elements("B") = <<SomeRect>>

\* C23: last accepted update wins. An applyUpdate on a session sets its state to
\* exactly the elements of that update, whatever the state was, and changes
\* nothing else of the session; no other call changes the state of a session
\* that stays alive; and a join of any participant after the update returns
\* these elements as the snapshot.
C23_LastUpdateWins ==
    [][\A sid \in CanvasIds :
        (sessions[sid] # <<>> /\ sessions'[sid] # <<>>) =>
            IF /\ accepted' = accepted + 1
               /\ \E c \in Clients : lastEvent'[c].op = "applyUpdate" /\ lastEvent'[c].call.fn = sid
            THEN \A c \in Clients :
                    lastEvent'[c].op = "applyUpdate" =>
                        /\ sessions'[sid][1].state = lastEvent'[c].call.arg
                        /\ sessions'[sid][1].participants = sessions[sid][1].participants
                        /\ \A p \in PartIds :
                            joinReturn(sessions', sid, p).snapshot = lastEvent'[c].call.arg
            ELSE sessions'[sid][1].state = sessions[sid][1].state
      ]_vars

\* the session held one element, the update of two other elements was applied,
\* and a participant joined afterwards
C23_Witness ==
    /\ lastEvent["A"].op = "applyUpdate" /\ lastEvent["A"].call = Call("c1", <<NearEl, FarEl>>)
    /\ sessions["c1"] # <<>> /\ sessions["c1"][1].state = <<NearEl, FarEl>>
    /\ tally["c1"].added = 3 /\ Count(sessions, "c1") = 3

\* C24: session lifecycle. A session exists exactly when it has at least one
\* participant; the join that creates it starts it with no elements, also when
\* an earlier session of the same id had some; the leave of its last participant
\* discards it.
C24_SessionLifecycle ==
    /\ [](\A sid \in CanvasIds :
            /\ (sessions[sid] # <<>>) = (Count(sessions, sid) >= 1)
            /\ sessions[sid] # <<>> => DOMAIN sessions[sid][1].participants # {})
    /\ [][\A sid \in CanvasIds :
            /\ (sessions[sid] = <<>> /\ sessions'[sid] # <<>>) =>
                    /\ tally'[sid].joins = tally[sid].joins + 1
                    /\ sessions'[sid][1].state = <<>>
                    /\ Count(sessions', sid) = 1
            /\ (sessions[sid] # <<>> /\ sessions'[sid] = <<>>) =>
                    /\ tally'[sid].leaves = tally[sid].leaves + 1
                    /\ Count(sessions, sid) = 1
            /\ (/\ Count(sessions, sid) = 1
                /\ tally'[sid].removed = tally[sid].removed + 1) => sessions'[sid] = <<>>
       ]_vars

\* a session whose state had two elements was left by its last participant and
\* the id was joined again: the new session has no elements
C24_Witness ==
    /\ lastEvent["A"].op = "applyUpdate" /\ lastEvent["A"].call = Call("c1", <<NearEl, FarEl>>)
    /\ tally["c1"].removed = 1 /\ tally["c1"].added = 2
    /\ sessions["c1"] # <<>> /\ sessions["c1"][1].state = <<>>

\* C25: a join always succeeds, whatever the size of the session: afterwards the
\* participant is in the session; and in every reachable state the live
\* participants of one session have pairwise different colors.
C25_JoinSucceedsColorsDiffer ==
    /\ [][\A sid \in CanvasIds :
            tally'[sid].joins = tally[sid].joins + 1 =>
                /\ sessions'[sid] # <<>>
                /\ \E p \in PartIds :
                    /\ p \in Members(sessions', sid)
                    /\ Members(sessions', sid) = Members(sessions, sid) \cup {p}
       ]_vars
    /\ [](\A sid \in CanvasIds : \A p, q \in Members(sessions, sid) :
            p # q => sessions[sid][1].participants[p].color
                        # sessions[sid][1].participants[q].color)

\* two participants are in the session after one with a lower color has left and
\* another has joined
C25_Witness ==
    /\ Count(sessions, "c1") = 2
    /\ tally["c1"].added = 3 /\ tally["c1"].removed = 1 /\ tally["c1"].joins = 3
    /\ \E p \in Members(sessions, "c1") : sessions["c1"][1].participants[p].color = 1

\* C26: broadcasting an accepted canvas_update to every participant and
\* broadcasting it to the others only agree, once every message is delivered,
\* for every client but the originator of the last accepted update: under
\* broadcast to all every client's list is the last accepted snapshot, under
\* broadcast to others the clients that did not send the last accepted update
\* hold it too, and after a single accepted update all lists agree.
SameRole(x, y) == Role(x) = Role(y) /\ CanvasOf(x) = "c1" /\ CanvasOf(y) = "c2"
LastOf(sid) == Log(sid)[Len(Log(sid))]
BothSettled == Settled("c1") /\ Settled("c2") /\ Log("c1") = Log("c2") /\ Log("c1") # <<>>
C26_EchoAgreesButForLastOriginator ==
    /\ Settled("c2") /\ Log("c2") # <<>> =>
        \A y \in EchoSet : CanvasOf(y) = "c2" => Elements(y) = LastOf("c2").items
    /\ BothSettled =>
        \A x, y \in EchoSet : SameRole(x, y) /\ Role(x) # LastOf("c1").from =>
            Elements(x) = Elements(y)
    /\ BothSettled /\ Len(Log("c1")) = 1 =>
        \A x, y \in EchoSet : SameRole(x, y) => Elements(x) = Elements(y)

\* C26 as stated: for the same accepted updates, once every message is
\* delivered each client's list is the same under both ways to broadcast
C26_EchoEquivalent ==
    BothSettled => \A x, y \in EchoSet : SameRole(x, y) => Elements(x) = Elements(y)

\* both sessions accepted the first participant's update and then the second's,
\* each sent before the other's arrived; all is delivered, A and C agree, B and D do not
C26_Witness ==
    /\ BothSettled /\ Len(Log("c1")) = 2
    /\ Log("c1")[1].from = 1 /\ Log("c1")[2].from = 2
    /\ Elements("A") = Elements("C") /\ Elements("A") = LastOf("c1").items
    /\ Elements("D") = LastOf("c2").items
    /\ Elements("B") = Log("c1")[1].items /\ Elements("B") # Elements("D")

\* C27: when two participants of a session each finalized an element before the
\* other's update reached them, then once every message is delivered and no
\* further input happens the session state is the update accepted last: the
\* element of the update accepted first is absent from it; and under broadcast
\* to others each of the two holds the other's element, so their lists differ.
Concurrent(sid) ==
    /\ Len(Log(sid)) = 2 /\ Log(sid)[1].from # Log(sid)[2].from
    /\ Log(sid)[1].items # <<>> /\ Log(sid)[2].items # <<>>
    /\ \A i \in DOMAIN Log(sid)[1].items, j \in DOMAIN Log(sid)[2].items :
            Log(sid)[1].items[i] # Log(sid)[2].items[j]
SentBy(sid, k) == CHOOSE c \in EchoSet : CanvasOf(c) = sid /\ Role(c) = Log(sid)[k].from
C27_LostUpdate ==
    \A sid \in CanvasIds : Settled(sid) /\ Concurrent(sid) =>
        /\ SessionElements(sid) = Log(sid)[2].items
        /\ \A i \in DOMAIN Log(sid)[1].items, j \in DOMAIN SessionElements(sid) :
                SessionElements(sid)[j] # Log(sid)[1].items[i]
        /\ ~ToAll(sid) =>
            /\ Elements(SentBy(sid, 1)) = Log(sid)[2].items
            /\ Elements(SentBy(sid, 2)) = Log(sid)[1].items
            /\ Elements(SentBy(sid, 1)) # Elements(SentBy(sid, 2))

\* A and B each drew a rectangle before the other's update arrived; B's update
\* was accepted last and all is delivered: A's rectangle is not in the session
\* state, A shows B's rectangle and B shows A's
C27_Witness ==
    /\ Settled("c1") /\ Concurrent("c1") /\ Log("c1")[1].from = 1
    /\ ~isDrawing["A"] /\ ~isDrawing["B"]
    /\ Len(SessionElements("c1")) = 1 /\ SessionElements("c1")[1].x = 30
    /\ Len(Elements("A")) = 1 /\ Elements("A")[1].x = 30
    /\ Len(Elements("B")) = 1 /\ Elements("B")[1].x = 10

\* C28: a pointer-move sends, while the channel is Connected, exactly one
\* cursor_move carrying the current point, whatever the tool and whether or not
\* a stroke is under way, and sends nothing otherwise; the point is appended to
\* the path buffer iff a stroke is under way and the tool is pen or eraser; the
\* element list, the tool, the drawing flag and the start point stay as they were.
C28_PointerMove ==
    [][\A c \in Clients :
        (lastEvent'[c].op = "user" /\ lastEvent'[c].call.fn = "handleMouseMove") =>
            LET pos == lastEvent'[c].call.arg
            IN  /\ canvasState'[c] = canvasState[c]
                /\ isDrawing'[c] = isDrawing[c] /\ startPoint'[c] = startPoint[c]
                /\ currentPath'[c] =
                       IF isDrawing[c] /\ canvasState[c].selectedTool \in {"pen", "eraser"}
                       THEN Append(currentPath[c], pos) ELSE currentPath[c]
                /\ up' = IF Connected(c)
                         THEN [up EXCEPT ![c][wsRef[c]] =
                                  Append(@, JSONstringify(CursorMsg(pos)))]
                         ELSE up
      ]_vars

\* the pointer moved to (50,50) in the middle of a pen stroke begun at (10,10):
\* the buffer holds both points and the cursor_move is in flight
C28_Witness ==
    /\ lastEvent["A"].op = "user" /\ lastEvent["A"].call.fn = "handleMouseMove"
    /\ lastEvent["A"].open /\ isDrawing["A"] /\ canvasState["A"].selectedTool = "pen"
    /\ currentPath["A"] = <<Point(10, 10), Point(50, 50)>>
    /\ up["A"][1] = <<JSONstringify(CursorMsg(Point(50, 50)))>>

\* C30: a pointer-down sets the drawing flag and makes the down point the start
\* point for every tool; for pen and eraser the path buffer becomes the single
\* down point, whatever it held, and for the other tools it stays as it was;
\* the element list is unchanged and no message is sent.
C30_PointerDown ==
    [][\A c \in Clients :
        (lastEvent'[c].op = "user" /\ lastEvent'[c].call.fn = "handleMouseDown") =>
            LET pos == lastEvent'[c].call.arg
            IN  /\ isDrawing'[c] /\ startPoint'[c] = <<pos>>
                /\ currentPath'[c] =
                       IF canvasState[c].selectedTool \in {"pen", "eraser"}
                       THEN <<pos>> ELSE currentPath[c]
                /\ canvasState'[c] = canvasState[c]
                /\ lastEvent'[c].frame = <<>> /\ up' = up
      ]_vars

\* the eraser went down at (50,50) on a canvas that shows elements: the buffer is
\* that point alone and nothing is in flight
C30_Witness ==
    /\ lastEvent["A"].op = "user" /\ lastEvent["A"].call.fn = "handleMouseDown"
    /\ lastEvent["A"].open /\ canvasState["A"].selectedTool = "eraser"
    /\ isDrawing["A"] /\ startPoint["A"] = <<Point(50, 50)>>
    /\ currentPath["A"] = <<Point(50, 50)>>
    /\ Elements("A") # <<>> /\ up["A"][1] = <<>>

\* C29: while the page is on screen its selected tool changes only by an explicit
\* tool selection, which makes it the tool selected: pointer-down, pointer-move,
\* pointer-up, pointer-leave, delete-all, every inbound message and every
\* connection event (open, failure, close, timer, clock) leave it as it was.
C29_ToolChangesBySelection ==
    [][\A c \in Clients :
        /\ (mounted[c] /\ mounted'[c]
            /\ canvasState'[c].selectedTool # canvasState[c].selectedTool) =>
                /\ lastEvent'[c].op = "user" /\ lastEvent'[c].call.fn = "selectTool"
        /\ (lastEvent'[c].op = "user" /\ lastEvent'[c].call.fn = "selectTool") =>
                canvasState'[c].selectedTool = lastEvent'[c].call.arg
      ]_vars

\* with the pen selected the page has just handled an inbound canvas_update:
\* it shows the received rectangle and the pen is still selected
C29_Witness ==
    /\ mounted["A"] /\ canvasState["A"].selectedTool = "pen"
    /\ lastEvent["A"].op = "recv"
    /\ lastEvent["A"].frame = <<JSONstringify(UpdateMsg(<<SomeRect>>))>>
    /\ Elements("A") = <<SomeRect>>

\* C31: a pointer-up handled while a stroke is under way changes the element list
\* at most once (it appends one element, or removes the elements the eraser's
\* release point is close to, or leaves the list alone, as for the select tool
\* and for a pen path of a single point), sends at most one frame, a
\* canvas_update, and always ends the stroke: isDrawing is false, the path
\* buffer is empty and startPoint is null afterwards.
C31_PointerUpOnce ==
    [][\A c \in Clients :
        (/\ lastEvent'[c].op = "user" /\ lastEvent'[c].call.fn = "handleMouseUp"
         /\ isDrawing[c]) =>
            LET tool == canvasState[c].selectedTool
                pos == lastEvent'[c].call.arg
                n == Len(Elements(c))
                sent == lastEvent'[c].frame
            IN  /\ ~isDrawing'[c] /\ currentPath'[c] = <<>> /\ startPoint'[c] = <<>>
                /\ \/ Elements(c)' = Elements(c)
                   \/ /\ tool \notin {"eraser", "select"}
                      /\ Len(Elements(c)') = n + 1 /\ SubSeq(Elements(c)', 1, n) = Elements(c)
                   \/ tool = "eraser" /\ Elements(c)' = Filter(Elements(c), pos)
                /\ tool = "select" => Elements(c)' = Elements(c)
                /\ (tool = "pen" /\ Len(currentPath[c]) <= 1) => Elements(c)' = Elements(c)
                /\ Len(sent) <= 1
                /\ sent # <<>> => sent[1].type = "canvas_update"
                /\ up' = IF Connected(c) /\ sent # <<>>
                         THEN [up EXCEPT ![c][wsRef[c]] = Append(@, JSONstringify(sent[1]))]
                         ELSE up
      ]_vars

\* the eraser was released at (30,0) over the snapshot of three elements: the one
\* anchored 10 units away is gone, the stroke is over and nothing was sent
C31_Witness ==
    /\ lastEvent["A"].op = "user" /\ lastEvent["A"].call.fn = "handleMouseUp"
    /\ lastEvent["A"].call.arg = Point(30, 0) /\ lastEvent["A"].frame = <<>>
    /\ canvasState["A"].selectedTool = "eraser" /\ Elements("A") = <<NearEl, FarEl>>
    /\ ~isDrawing["A"] /\ currentPath["A"] = <<>> /\ startPoint["A"] = <<>>

\* C32: every user operation that changes the element list of a Connected client
\* (finalizing an element, an eraser removal, delete-all) sends a canvas_update
\* that carries the resulting list, so that the other participants come to show
\* the change; an eraser pointer-up that removes an element is no exception.
C32_EveryChangeIsSent ==
    [][\A c \in Clients :
        (/\ lastEvent'[c].op = "user" /\ Connected(c)
         /\ Elements(c)' # Elements(c)) =>
            /\ lastEvent'[c].frame = <<UpdateMsg(Elements(c)')>>
            /\ up' = [up EXCEPT ![c][wsRef[c]] =
                        Append(@, JSONstringify(UpdateMsg(Elements(c)')))]
      ]_vars

\* C33: in every reachable state a client channel has at most one live socket
\* (CONNECTING or OPEN), whatever the order of connect, reconnect(), close
\* events, reconnect-timer firings and gateway-URL changes.
LiveSockets(ch) == {s \in Slots : readyState[ch][s] \in {"CONNECTING", "OPEN"}}
C33_OneLiveSocket == \A ch \in Chan : Cardinality(LiveSockets(ch)) <= 1

\* C34: in every reachable state at most one reconnect timer of a useWebSocket
\* channel is pending and reconnectTimeoutRef is that timer, so that the one
\* clearTimeout of disconnect() cancels every pending reconnect.
C34_OnePendingTimer ==
    \A ch \in Chan : Kind(ch) = "hook" =>
        /\ Cardinality(Pending(ChanRec(ch))) <= 1
        /\ Pending(ChanRec(ch)) \subseteq {reconnectTimeoutRef[ch]}

\* C35: every path element the pen makes has its anchor at (0,0), whatever its
\* points are; so an eraser pointer-up removes a pen path iff the release point
\* is within 20 units of the origin, and the points of the path play no part.
PenPath == [id |-> "0", type |-> "path", x |-> 0, y |-> 0, color |-> "#000000",
            strokeWidth |-> 2, points |-> <<Point(50, 50), Point(30, 0)>>]
C35_PenPathAnchoredAtOrigin ==
    /\ [](\A c \in Clients : \A i \in DOMAIN Elements(c) :
            Elements(c)[i].type = "path" => Elements(c)[i].x = 0 /\ Elements(c)[i].y = 0)
    /\ [][\A c \in Clients :
            (/\ lastEvent'[c].op = "user" /\ lastEvent'[c].call.fn = "handleMouseUp"
             /\ isDrawing[c] /\ canvasState[c].selectedTool = "eraser") =>
                LET pos == lastEvent'[c].call.arg
                    NearOrigin == pos.x * pos.x + pos.y * pos.y <= EraseRadius * EraseRadius
                    Stays(el) == IF el.type = "path" THEN ~NearOrigin ELSE Kept(el, pos)
                IN  Elements(c)' = SelectSeq(Elements(c), Stays)
       ]_vars

\* the eraser, pressed and released at (50,50), the first point of the only pen
\* path, has left the path where it was
C35_Witness ==
    /\ lastEvent["A"].op = "user" /\ lastEvent["A"].call.fn = "handleMouseUp"
    /\ lastEvent["A"].call.drawing /\ lastEvent["A"].call.arg = Point(50, 50)
    /\ canvasState["A"].selectedTool = "eraser"
    /\ Elements("A") = <<PenPath>>

\* C36: the inbound messages have disjoint effects on a page: handling a
\* canvas_update changes the element list only, a cursor_move the roster only, a
\* users_count the user count only, and none of them changes isDrawing,
\* startPoint or the path buffer; so a stroke under way survives a remote update
\* and its pointer-up appends the new element to the list the update supplied.
FrameType(data) ==
    IF JSONparse(data) # <<>> /\ "type" \in DOMAIN JSONparse(data)[1]
    THEN JSONparse(data)[1].type ELSE ""
SameBut(c, field) ==
    canvasState'[c] = [canvasState[c] EXCEPT ![field] = canvasState'[c][field]]
C36_InboundEffectsDisjoint ==
    [][\A c \in Clients :
        /\ (lastEvent'[c].op = "recv" /\ mounted[c]) =>
            LET type == FrameType(lastEvent'[c].frame[1])
            IN  /\ isDrawing'[c] = isDrawing[c] /\ startPoint'[c] = startPoint[c]
                /\ currentPath'[c] = currentPath[c]
                /\ type = "canvas_update" =>
                        SameBut(c, "elements") /\ connectedUsers'[c] = connectedUsers[c]
                /\ type = "cursor_move" =>
                        SameBut(c, "users") /\ connectedUsers'[c] = connectedUsers[c]
                /\ type = "users_count" => canvasState'[c] = canvasState[c]
                /\ type \notin {"canvas_update", "cursor_move", "users_count"} =>
                        canvasState'[c] = canvasState[c] /\ connectedUsers'[c] = connectedUsers[c]
        /\ (/\ lastEvent'[c].op = "user" /\ lastEvent'[c].call.fn = "handleMouseUp"
            /\ isDrawing[c] /\ canvasState[c].selectedTool = "rect") =>
                /\ Len(Elements(c)') = Len(Elements(c)) + 1
                /\ SubSeq(Elements(c)', 1, Len(Elements(c))) = Elements(c)
      ]_vars

\* a snapshot has just arrived in the middle of a rect stroke begun at (10,10):
\* the page shows the snapshot and the stroke is still under way
C36_Witness ==
    /\ lastEvent["A"].op = "recv"
    /\ lastEvent["A"].frame = <<JSONstringify(UpdateMsg(<<FarEl>>))>>
    /\ Elements("A") = <<FarEl>>
    /\ isDrawing["A"] /\ startPoint["A"] = <<Point(10, 10)>>
    /\ canvasState["A"].users # <<>> /\ connectedUsers["A"] = <<2>>

\* C37: a stroke the pointer abandons by leaving the canvas produces nothing:
\* after a pointer-leave isDrawing is false and nothing else has changed, and a
\* pointer-up handled while isDrawing is false changes neither the elements nor
\* the path buffer nor startPoint and sends no message, whatever the tool.
C37_AbandonedStroke ==
    [][\A c \in Clients :
        /\ (lastEvent'[c].op = "user" /\ lastEvent'[c].call.fn = "handleMouseLeave") =>
            /\ ~isDrawing'[c]
            /\ canvasState'[c] = canvasState[c] /\ currentPath'[c] = currentPath[c]
            /\ startPoint'[c] = startPoint[c]
            /\ lastEvent'[c].frame = <<>> /\ up' = up
        /\ (/\ lastEvent'[c].op = "user" /\ lastEvent'[c].call.fn = "handleMouseUp"
            /\ ~isDrawing[c]) =>
            /\ ~isDrawing'[c]
            /\ canvasState'[c] = canvasState[c] /\ currentPath'[c] = currentPath[c]
            /\ startPoint'[c] = startPoint[c]
            /\ lastEvent'[c].frame = <<>> /\ up' = up
      ]_vars

\* a pen stroke of two points was abandoned and the pointer released afterwards:
\* the buffer still holds the two points and no element was made
C37_Witness ==
    /\ lastEvent["A"].op = "user" /\ lastEvent["A"].call.fn = "handleMouseUp"
    /\ ~lastEvent["A"].call.drawing /\ lastEvent["A"].open
    /\ canvasState["A"].selectedTool = "pen" /\ ~isDrawing["A"]
    /\ Len(currentPath["A"]) = 2 /\ startPoint["A"] # <<>>
    /\ Elements("A") = <<>> /\ up["A"][1] = <<>>

\* C38: in every reachable state the presence roster of a page holds at most one
\* entry per participant id, whatever cursor_move messages arrived.
Roster(c) == canvasState[c].users
C38_RosterOnePerId ==
    \A c \in Clients : \A i, j \in DOMAIN Roster(c) :
        Roster(c)[i].id = Roster(c)[j].id => i = j

\* the roster holds p1 and then p2, and p1's cursor has just moved again: its
\* entry, still the first, carries the new position
C38_Witness ==
    /\ lastEvent["A"].op = "recv"
    /\ lastEvent["A"].frame = <<JSONstringify(CursorAs("p1", Point(50, 50)))>>
    /\ Len(Roster("A")) = 2
    /\ Roster("A")[1].id = <<"p1">> /\ Roster("A")[1].cursor = <<Point(50, 50)>>
    /\ Roster("A")[2].id = <<"p2">>

====
